---- MODULE Spec2Model ----
(***************************************************************************)
(* Route reconstruction of the employee tracker: create_direct_map of      *)
(* fixed_map_generator.py reads one user's location rows and status rows   *)
(* of one day, merges them into one timeline, cuts the points into path    *)
(* segments at every status event and hands markers and polylines to the   *)
(* map library.                                                            *)
(*                                                                         *)
(* Timestamps are the TEXT values of the timestamp columns.  Every writer  *)
(* of the repository stores 'YYYY-MM-DD HH:MM:SS' (19 characters,          *)
(* CURRENT_TIMESTAMP or strftime); create_test_route.py also stores a      *)
(* string it is given as is.  A timestamp is modelled as a record          *)
(*   [fmt |-> "iso",   ord |-> t]  the 19-character string of tick t,      *)
(*   [fmt |-> "short", ord |-> MaxTick + 1]  the 16-character string       *)
(*       'YYYY-MM-DD 23:59' (no seconds) of the same day: strptime rejects *)
(*       it, and it is lexicographically after every tick of the model     *)
(*       and inside the BETWEEN range of the queries.                      *)
(* ord is the rank of the string in lexicographic order.  Coordinates are  *)
(* whole degrees.                                                          *)
(*                                                                         *)
(* Three more parts of the tracker follow, each with a specification of    *)
(* its own: the coordinate filter of the map builders (NormSpec), the      *)
(* storage functions of database.py (DbSpec) and the movement classifier   *)
(* of handle_location in bot.py (BotSpec).  The variables of the parts     *)
(* that a specification does not run stay at their idle values.            *)
(* SessionSpec runs the location and the status handler of bot.py over     *)
(* the sessions of one user, and DaySpec runs a day of one user from the   *)
(* messages to the map that create_direct_map draws of the stored rows.    *)
(***************************************************************************)
EXTENDS Integers, Sequences, FiniteSets, TLC

MaxLocations == 2
MaxStatuses == 2
MaxTick == 1

VARIABLES
    valid_locations,   \* rows returned by get_locations_from_db
    status_history,    \* rows returned by get_status_history_from_db
    status_events,     \* (time_key, status), sorted
    location_events,   \* (time_key, lat, lon, loc_type, timestamp), sorted
    all_events,        \* the merged timeline
    event_index,       \* position of the for loop over all_events
    path_segments,     \* closed segments
    current_segment,   \* the segment being accumulated
    current_status,    \* status of the last status event seen
    markers,           \* markers added to the map, in order
    polylines,         \* polylines added to the map, in order
    map_filename,      \* value returned by create_direct_map
    previous_segments, \* path_segments of the runs of the loop before this one
    pc                 \* position in create_direct_map

mapVars == <<valid_locations, status_history, status_events, location_events,
             all_events, event_index, path_segments, current_segment,
             current_status, markers, polylines, map_filename,
             previous_segments, pc>>

\* the coordinate filter at the head of the two map builders
VARIABLES
    normalizer,        \* the function whose filter loop runs
    all_locations,     \* the rows handed to the filter
    row_index,         \* position of the for loop over all_locations
    filtered,          \* the list the loop appends to (valid_locations)
    processed_locations, \* utils.py 154-183: the rows with parsed timestamps
    norm_pc            \* "idle", "loop", "done" or "raised"

normVars == <<normalizer, all_locations, row_index, filtered,
             processed_locations, norm_pc>>

\* the location_history table and the wall clock
VARIABLES
    location_history,  \* the rows of the table, in insertion order (id = position)
    status_table,      \* the rows of the status_history table, in insertion order
    morning_checks,    \* the rows of the morning_checks table
    now,               \* seconds since midnight UTC of the first day
    db_call,           \* the last call of a function of database.py
    db_calls           \* number of calls made so far

dbVars == <<location_history, status_table, morning_checks, now, db_call, db_calls>>

\* the location handler of the bot
VARIABLES
    chat_data,         \* context.chat_data[user_id] of every user
    location_tracking, \* chat_data["location_tracking_<user_id>"]
    location_session,  \* chat_data["location_session_<user_id>"]
    alerts,            \* messages sent to ADMIN_ID, in order
    handled,           \* the locals of the last run of handle_location
    updates,           \* number of location updates handled so far
    inflight           \* the runs of handle_location and the locals of each

botVars == <<chat_data, location_tracking, location_session, alerts, handled,
             updates, inflight>>

\* the scheduled tasks of the bot and what they read and send
VARIABLES
    date_column,       \* whether the morning_checks table has a column "date"
    night_shifts,      \* the rows of the night_shifts table
    sent,              \* the messages sent by the scheduled tasks, in order
    bot_data,          \* context.bot_data["inactivity_notified_<user_id>"]
    task_run,          \* the last run of a scheduled task
    task_runs,         \* number of runs of scheduled tasks so far
    timeoff_requests,  \* the rows of the timeoff_requests table (id = position)
    timeoff_reply,     \* the last run of handle_timeoff_response
    timeoff_responses  \* number of runs of handle_timeoff_response so far

taskVars == <<date_column, night_shifts, sent, bot_data, task_run, task_runs,
              timeoff_requests, timeoff_reply, timeoff_responses>>

vars == <<mapVars, normVars, dbVars, botVars, taskVars>>

----------------------------------------------------------------------------
(* Input domains *)

Ticks == 0 .. MaxTick

IsoTimestamp(t) == [fmt |-> "iso", ord |-> t]

ShortTimestamp == [fmt |-> "short", ord |-> MaxTick + 1]

Timestamps == {IsoTimestamp(t) : t \in Ticks} \cup {ShortTimestamp}

Coordinates == {<<55, 37>>, <<56, 38>>}

StatusNames == {"office", "home"}

LocationTypes == {"start", "intermediate"}

UnknownStatus == "unknown"

DefaultCenter == <<55, 37>>

\* None, and the name of the saved html file
NoFile == "None"

MapFile == "map_user_date.html"

LocationRows ==
    {[lat |-> c[1], lon |-> c[2], timestamp |-> ts, loc_type |-> k] :
        c \in Coordinates, ts \in Timestamps, k \in LocationTypes}

StatusRows == {[status |-> s, timestamp |-> ts] : s \in StatusNames, ts \in Timestamps}

SeqsUpTo(S, n) == UNION {[1 .. k -> S] : k \in 0 .. n}

\* ORDER BY timestamp ASC of both queries: rows arrive in string order.
OrderedByTimestamp(rows) ==
    \A i \in 1 .. Len(rows) - 1 : rows[i].timestamp.ord <= rows[i + 1].timestamp.ord

----------------------------------------------------------------------------
(* Python helpers *)

\* len(str(s)[:19])
StrLen(s) == IF s.fmt = "iso" THEN 19 ELSE 16

Abs(n) == IF n < 0 THEN 0 - n ELSE n

\* datetime.strptime(s[:19], '%Y-%m-%d %H:%M:%S'): a datetime, or ValueError
strptime(s) ==
    IF s.fmt = "iso" THEN [ok |-> TRUE, dt |-> s.ord] ELSE [ok |-> FALSE, dt |-> 0]

RECURSIVE InsertByKey(_, _)
InsertByKey(s, p) ==
    IF s = <<>> THEN <<p>>
    ELSE IF p[1] < Head(s)[1] THEN <<p>> \o s
    ELSE <<Head(s)>> \o InsertByKey(Tail(s), p)

RECURSIVE SortPairs(_)
SortPairs(s) ==
    IF s = <<>> THEN <<>>
    ELSE InsertByKey(SortPairs(SubSeq(s, 1, Len(s) - 1)), s[Len(s)])

\* list.sort(key=...) / sorted(..., key=...): stable, ascending by keys[i]
ListSort(items, keys) ==
    LET sorted == SortPairs([i \in 1 .. Len(items) |-> <<keys[i], items[i]>>])
    IN  [i \in 1 .. Len(items) |-> sorted[i][2]]

----------------------------------------------------------------------------
(* Temporal merge, lines 228-290 *)

StatusEvents(history) ==
    LET events == [i \in 1 .. Len(history) |->
                      [time_key |-> history[i].timestamp, status |-> history[i].status]]
    IN  ListSort(events, [i \in 1 .. Len(events) |-> events[i].time_key.ord])

LocationEvents(locations) ==
    LET rows == ListSort(locations, [i \in 1 .. Len(locations) |-> locations[i].timestamp.ord])
        events == [i \in 1 .. Len(rows) |->
                      [time_key |-> rows[i].timestamp, lat |-> rows[i].lat,
                       lon |-> rows[i].lon, loc_type |-> rows[i].loc_type,
                       timestamp |-> rows[i].timestamp]]
    IN  ListSort(events, [i \in 1 .. Len(events) |-> events[i].time_key.ord])

\* mutant: the locations are put on the timeline before the statuses
MergedEventsLocationsFirst(statuses, locations) ==
    [i \in 1 .. Len(locations) |->
        [kind |-> "location", time_key |-> locations[i].time_key,
         lat |-> locations[i].lat, lon |-> locations[i].lon,
         loc_type |-> locations[i].loc_type, timestamp |-> locations[i].timestamp]]
    \o
    [i \in 1 .. Len(statuses) |->
        [kind |-> "status", time_key |-> statuses[i].time_key,
         status |-> statuses[i].status]]

MergedEvents(statuses, locations) ==
    [i \in 1 .. Len(statuses) |->
        [kind |-> "status", time_key |-> statuses[i].time_key,
         status |-> statuses[i].status]]
    \o
    [i \in 1 .. Len(locations) |->
        [kind |-> "location", time_key |-> locations[i].time_key,
         lat |-> locations[i].lat, lon |-> locations[i].lon,
         loc_type |-> locations[i].loc_type, timestamp |-> locations[i].timestamp]]

safe_sort_key(event) ==
    LET parsed == strptime(event.time_key)
    IN  IF parsed.ok THEN [type |-> "datetime", v |-> parsed.dt]
        ELSE [type |-> "str", v |-> event.time_key.ord]

\* '<' between a datetime and a str raises TypeError; a sort of two or more
\* keys of both types compares such a pair.
SortRaises(keys) ==
    \E i, j \in 1 .. Len(keys) : keys[i].type # keys[j].type

SortKeys(events) == [i \in 1 .. Len(events) |-> safe_sort_key(events[i])]

\* mutant: of two events of the same time the location comes first
SortedEventsLocationsFirst(events) ==
    ListSort(events, [i \in 1 .. Len(events) |->
                         2 * SortKeys(events)[i].v
                            + (IF events[i].kind = "status" THEN 1 ELSE 0)])

\* mutant: the timeline is left in the order it was built
UnsortedEvents(events) == events

SortedEvents(events) ==
    ListSort(events, [i \in 1 .. Len(events) |-> SortKeys(events)[i].v])

----------------------------------------------------------------------------
(* Segmentation loop, lines 292-405 *)

\* mutant: a segment is kept only when a line can be drawn through it
CloseSegmentIfLine(segments, segment) ==
    IF Len(segment) > 1 THEN Append(segments, segment) ELSE segments

CloseSegment(segments, segment) ==
    IF segment # <<>> THEN Append(segments, segment) ELSE segments

\* sorted(location_events, key=|len(x[0][:19]) - len(status_time_str)|)[0]
ClosestLocation(locations, time_key) ==
    ListSort(locations,
             [i \in 1 .. Len(locations) |->
                 Abs(StrLen(locations[i].time_key) - StrLen(time_key))])[1]

StatusChangeMarker(locations, time_key, status) ==
    LET closest_location == ClosestLocation(locations, time_key)
    IN  [kind |-> "status_change", lat |-> closest_location.lat,
         lon |-> closest_location.lon, status |-> status, time |-> time_key]

LocationIcon(loc_type) ==
    CASE loc_type = "start" -> "play"
      [] loc_type = "end" -> "stop"
      [] loc_type = "stationary" -> "pause"
      [] OTHER -> "circle"

LocationMarker(event, status) ==
    [kind |-> "location", lat |-> event.lat, lon |-> event.lon,
     status |-> status, time |-> event.time_key, icon |-> LocationIcon(event.loc_type)]

----------------------------------------------------------------------------
(* Rendering, lines 407-501 *)

\* mutant: a line is drawn through any non-empty segment
DrawsLineAnyPoints(segment) == Len(segment) > 0

DrawsLine(segment) == Len(segment) > 1

\* the lookup of lines 419-423 and 439-443: field 3 of the first location
\* event at these coordinates (the loc_type), else the default text
SegmentTimeStr(locations, point) ==
    LET hits == {i \in 1 .. Len(locations) :
                    locations[i].lat = point[1] /\ locations[i].lon = point[2]}
    IN  IF hits = {} THEN UnknownStatus
        ELSE locations[CHOOSE i \in hits : \A j \in hits : i <= j].loc_type

SegmentMarkers(i, segment, locations, status) ==
    <<[kind |-> "segment_start", lat |-> segment[1][1], lon |-> segment[1][2],
       status |-> status, segment |-> i,
       time |-> SegmentTimeStr(locations, segment[1])],
      [kind |-> "segment_end", lat |-> segment[Len(segment)][1],
       lon |-> segment[Len(segment)][2], status |-> status, segment |-> i,
       time |-> SegmentTimeStr(locations, segment[Len(segment)])]>>

SegmentLine(i, segment, status) ==
    [points |-> segment, status |-> status, segment |-> i]

RECURSIVE RenderedMarkers(_, _, _, _)
RenderedMarkers(i, segments, locations, status) ==
    IF i > Len(segments) THEN <<>>
    ELSE (IF DrawsLine(segments[i])
          THEN SegmentMarkers(i, segments[i], locations, status) ELSE <<>>)
         \o RenderedMarkers(i + 1, segments, locations, status)

RECURSIVE RenderedLines(_, _, _)
RenderedLines(i, segments, status) ==
    IF i > Len(segments) THEN <<>>
    ELSE (IF DrawsLine(segments[i])
          THEN <<SegmentLine(i, segments[i], status)>> ELSE <<>>)
         \o RenderedLines(i + 1, segments, status)

RouteStartEvent(locations) == locations[1]

\* mutant: the route end is read from the head of the list
RouteEndIsFirst(locations) == locations[1]

RouteEndEvent(locations) == locations[Len(locations)]

RouteMarkerPair(locations) ==
    <<[kind |-> "route_start", lat |-> RouteStartEvent(locations).lat,
       lon |-> RouteStartEvent(locations).lon, time |-> RouteStartEvent(locations).loc_type,
       icon |-> "play"],
      [kind |-> "route_end", lat |-> RouteEndEvent(locations).lat,
       lon |-> RouteEndEvent(locations).lon, time |-> RouteEndEvent(locations).loc_type,
       icon |-> "stop"]>>

----------------------------------------------------------------------------
(* Coordinate filter: get_locations_from_db, fixed_map_generator.py 97-117, *)
(* and the head of create_map_for_user, utils.py 119-152.  A raw column     *)
(* value is a number, a text that float() accepts, a text that it rejects,  *)
(* or None.                                                                 *)

MaxRows == 2

Real(n) == [kind |-> "real", numeric |-> TRUE, v |-> n]

NumericText(n) == [kind |-> "text", numeric |-> TRUE, v |-> n]

Garbage == [kind |-> "text", numeric |-> FALSE, v |-> 0]

Null == [kind |-> "null", numeric |-> FALSE, v |-> 0]

RawLatitudes == {Real(0 - 91), Real(0 - 90), Real(90), NumericText(91),
                 NumericText(55), Garbage}

RawLongitudes == {Real(0 - 180), Real(180), Real(181), NumericText(0 - 181),
                  NumericText(37), Null}

Normalizers == {"get_locations_from_db", "create_map_for_user"}

\* the rows of one query or one call, told apart by their timestamp
RawRows(k) ==
    {[i \in 1 .. k |-> [lat |-> c[i][1], lon |-> c[i][2], timestamp |-> i]] :
        c \in [1 .. k -> RawLatitudes \X RawLongitudes]}

\* float(x): the number, or ValueError for a text that is no number, or
\* TypeError for None
float(x) ==
    CASE x.kind = "real" -> [error |-> "none", v |-> x.v]
      [] x.kind = "text" /\ x.numeric -> [error |-> "none", v |-> x.v]
      [] x.kind = "text" /\ ~x.numeric -> [error |-> "ValueError", v |-> 0]
      [] OTHER -> [error |-> "TypeError", v |-> 0]

\* mutant: the limits themselves are out of range
StrictlyInRange(lat, lon) ==
    (0 - 90) < lat /\ lat < 90 /\ (0 - 180) < lon /\ lon < 180

\* -90 <= lat <= 90 and -180 <= lon <= 180
InRange(lat, lon) ==
    (0 - 90) <= lat /\ lat <= 90 /\ (0 - 180) <= lon /\ lon <= 180

\* the exceptions of the except clause of both loops
Caught == {"ValueError", "TypeError"}

\* fixed_map_generator.py 99-115: both columns go through float(), the
\* accepted row is rebuilt from the converted numbers
DbRowOutcome(loc) ==
    LET lat == float(loc.lat)
        lon == float(loc.lon)
    IN  IF lat.error # "none" THEN [error |-> lat.error, keep |-> FALSE, row |-> loc]
        ELSE IF lon.error # "none" THEN [error |-> lon.error, keep |-> FALSE, row |-> loc]
        ELSE [error |-> "none", keep |-> InRange(lat.v, lon.v),
              row |-> [lat |-> Real(lat.v), lon |-> Real(lon.v),
                       timestamp |-> loc.timestamp]]

\* utils.py 134-139: only a str goes through float()
UtilsConverted(x) ==
    IF x.kind = "text" THEN float(x)
    ELSE [error |-> "none", v |-> x.v]

\* utils.py 133-149: the comparison with None raises TypeError, the
\* accepted row is appended as it came
UtilsRowOutcome(loc) ==
    LET lat == UtilsConverted(loc.lat)
        lon == UtilsConverted(loc.lon)
    IN  IF lat.error # "none" THEN [error |-> lat.error, keep |-> FALSE, row |-> loc]
        ELSE IF lon.error # "none" THEN [error |-> lon.error, keep |-> FALSE, row |-> loc]
        ELSE IF loc.lat.kind = "null" \/ loc.lon.kind = "null"
             THEN [error |-> "TypeError", keep |-> FALSE, row |-> loc]
        ELSE [error |-> "none", keep |-> InRange(lat.v, lon.v), row |-> loc]

RowOutcome(name, loc) ==
    IF name = "get_locations_from_db" THEN DbRowOutcome(loc) ELSE UtilsRowOutcome(loc)

NormIdle ==
    /\ normalizer = "none"
    /\ all_locations = <<>>
    /\ row_index = 1
    /\ filtered = <<>>
    /\ processed_locations = <<>>
    /\ norm_pc = "idle"

----------------------------------------------------------------------------
(* Storage: save_location and mark_session_ended of database.py.  The       *)
(* clock counts seconds; the timestamp column gets CURRENT_TIMESTAMP, the   *)
(* UTC time of the insert, and "today" is the date in Moscow (UTC+3).       *)

MaxDbCalls == 3

Users == {1, 2}

\* session_id=None, and an id no call ever made
NoSession == [user |-> 0, started |-> 0]

\* f"session_{user_id}_{int(datetime.now().timestamp())}"
NewSessionId(user_id, t) == [user |-> user_id, started |-> t]

Day(t) == t \div 86400

\* timestamp LIKE 'today%': the UTC date of the row is the Moscow date of t
LikeToday(timestamp, t) == Day(timestamp) = Day(t + 3 * 3600)

\* ORDER BY timestamp DESC LIMIT 1 over the rows at positions ids: a row of
\* the latest timestamp; SQL
\* leaves the choice among equal timestamps open
MostRecent(table, ids) ==
    {i \in ids : \A j \in ids : table[j].timestamp <= table[i].timestamp}

\* lines 171-185: the session a call without session_id writes to
SessionChoices(table, user_id, session_id, t) ==
    IF session_id # NoSession THEN {session_id}
    ELSE LET active == {i \in 1 .. Len(table) :
                           /\ table[i].user_id = user_id
                           /\ LikeToday(table[i].timestamp, t)
                           /\ table[i].location_type # "end"}
         IN  IF active # {}
             THEN {table[i].session_id : i \in MostRecent(table, active)}
             ELSE {NewSessionId(user_id, t)}

\* INSERT INTO location_history (...): id and timestamp are filled in
InsertRow(table, user_id, latitude, longitude, session_id, location_type, t) ==
    Append(table, [id |-> Len(table) + 1, user_id |-> user_id,
                   latitude |-> latitude, longitude |-> longitude,
                   timestamp |-> t, session_id |-> session_id,
                   location_type |-> location_type])

\* Python truth of a number: 0 and 0.0 are false
Truthy(x) == x # 0

\* no coordinates given (latitude=None, longitude=None)
NoCoordinates == <<>>

\* lines 353-381: the tables mark_session_ended can leave behind
SessionEndedTables(table, session_id, user_id, coordinates, t) ==
    IF coordinates # NoCoordinates /\ Truthy(coordinates[1]) /\ Truthy(coordinates[2])
    THEN {InsertRow(table, user_id, coordinates[1], coordinates[2], session_id,
                    "end", t)}
    ELSE LET rows == {i \in 1 .. Len(table) :
                         table[i].user_id = user_id /\ table[i].session_id = session_id}
         IN  IF rows # {}
             THEN {[table EXCEPT ![i].location_type = "end"] :
                      i \in MostRecent(table, rows)}
             ELSE {table}

\* the arguments of a call, as the caller passed them
Call(function, user_id, session_id, coordinates, location_type) ==
    [function |-> function, user_id |-> user_id, session_id |-> session_id,
     coordinates |-> coordinates, location_type |-> location_type]

NoCall == Call("none", 0, NoSession, NoCoordinates, "none")

\* database.py 196-208: INSERT INTO status_history (user_id, status)
InsertStatus(table, user_id, status, t) ==
    Append(table, [id |-> Len(table) + 1, user_id |-> user_id, status |-> status,
                   timestamp |-> t])

\* database.py 325-342: the sessions with a row of today that is not 'end'
get_active_location_sessions(table, user_id, t) ==
    {table[i].session_id : i \in {j \in 1 .. Len(table) :
                                     /\ table[j].user_id = user_id
                                     /\ LikeToday(table[j].timestamp, t)
                                     /\ table[j].location_type # "end"}}

\* the row of (user_id, check_date), or the row that INSERT makes with the
\* defaults of database.py 54-56
MorningRow(table, user_id, check_date) ==
    LET rows == {row \in table : row.user_id = user_id /\ row.date = check_date}
    IN  IF rows = {}
        THEN [user_id |-> user_id, date |-> check_date, checked_in |-> FALSE,
              notified |-> FALSE, admin_notified |-> FALSE]
        ELSE CHOOSE row \in rows : TRUE

\* models.py 219-249: the row of (user_id, check_date) is updated, or
\* inserted when there is none. The statements name the column "date";
\* database.py 50-59 makes the table with "check_date" when there is no
\* table yet, and on such a table they raise and the function returns False
update_morning_check(table, user_id, check_date, checked_in) ==
    IF ~date_column THEN table
    ELSE LET row == MorningRow(table, user_id, check_date)
         IN  (table \ {row}) \cup {[row EXCEPT !.checked_in = checked_in]}

\* a call that leaves the flags of the row as they are
NotificationNotRecorded(table, user_id, check_date, notified, admin_notified) ==
    table

\* models.py 253-285
update_morning_check_notification(table, user_id, check_date, notified, admin_notified) ==
    IF ~date_column THEN table
    ELSE LET row == MorningRow(table, user_id, check_date)
         IN  (table \ {row}) \cup {[row EXCEPT !.notified = notified,
                                               !.admin_notified = admin_notified]}

\* models.py 292-305: INSERT OR IGNORE of a row for every user of user_mapping
EnsureMorningRows(table, check_date) ==
    table \cup {MorningRow(table, user_id, check_date) : user_id \in Users}

\* models.py 287-322: the table after the call and the rows returned; an
\* exception gives the empty list
get_unchecked_users_for_morning(table, check_date) ==
    IF ~date_column THEN [table |-> table, rows |-> {}]
    ELSE LET ensured == EnsureMorningRows(table, check_date)
         IN  [table |-> ensured,
              rows |-> {row \in ensured : row.date = check_date /\ ~row.checked_in}]

\* models.py 324-343
is_user_in_night_shift(user_id, today) ==
    \E shift \in night_shifts :
        /\ shift.user_id = user_id
        /\ shift.start_time <= today
        /\ shift.end_time >= today

\* database.py 210-250 with date: the rows of the UTC day, oldest first
get_user_status_history(table, user_id, date) ==
    SelectSeq(table, LAMBDA row : row.user_id = user_id /\ Day(row.timestamp) = date)

\* bot.py 226-231: mark_session_ended(session_id, user_id) for each of the
\* sessions; the tables the loop can leave behind
RECURSIVE EndSessions(_, _, _, _)
EndSessions(table, sessions, user_id, t) ==
    IF sessions = {} THEN {table}
    ELSE LET session_id == CHOOSE s \in sessions : TRUE
         IN  UNION {EndSessions(ended, sessions \ {session_id}, user_id, t) :
                       ended \in SessionEndedTables(table, session_id, user_id,
                                                    NoCoordinates, t)}

DbIdle ==
    /\ location_history = <<>>
    /\ status_table = <<>>
    /\ morning_checks = {}
    /\ now = 0
    /\ db_call = NoCall
    /\ db_calls = 0

----------------------------------------------------------------------------
(* Movement classifier: handle_location, bot.py 294-436.  The samples of    *)
(* the handler lie on the meridian of 37 degrees east; a latitude is        *)
(* counted in metres of arc north of the equator (0 is the equator, the     *)
(* float 0.0), so that the haversine distance of lines 338-351, R times the *)
(* difference of the latitudes in radians, is the difference of the two     *)
(* numbers.                                                                 *)

MaxUpdates == 3

SampleLatitudes == {0, 5, 15, 5015}

SampleLongitude == 37

\* seconds between two updates
ElapsedSeconds == {300, 1500, 1801}

\* lines 338-351 for two points of one meridian
haversine(lat1, lon1, lat2, lon2) == Abs(lat2 - lat1)

\* chat_data.get('speed', 0)
ZeroSpeed == [num |-> 0, den |-> 1]

\* mutant: metres per hour, a thousand times the km/h
SpeedInMetresPerHour(distance, time_diff_seconds) ==
    IF time_diff_seconds > 0
    THEN [num |-> 3600 * distance, den |-> time_diff_seconds]
    ELSE [num |-> 0, den |-> 1]

\* line 383, km/h as the fraction num / den
Speed(distance, time_diff_seconds) ==
    IF time_diff_seconds > 0
    THEN [num |-> 36 * distance, den |-> 10 * time_diff_seconds]
    ELSE ZeroSpeed

\* utils.py 310-329: the status the fallback map gives a stored point
movement_status(loc_type, speed) ==
    IF loc_type \in {"start", "end", "stationary"} THEN loc_type
    ELSE IF loc_type = "moving"
         THEN IF speed.num > 50 * speed.den THEN "fast_moving" ELSE "moving"
         ELSE "unknown"

\* mutant: a new entry starts with five minutes on the accumulator
NoChatDataDwelling ==
    [exists |-> FALSE, movement_status |-> "unknown", stationary_duration |-> 300,
     admin_notified |-> FALSE, speed |-> [num |-> 0, den |-> 1],
     last_location |-> <<>>]

\* a user the handler has not seen: no entry in chat_data; the fields hold
\* what the handler's .get() defaults and lines 315-317 give
NoChatData ==
    [exists |-> FALSE, movement_status |-> "unknown", stationary_duration |-> 0,
     admin_notified |-> FALSE, speed |-> ZeroSpeed, last_location |-> <<>>]

\* mutant: only a displacement under 5 m counts as staying
IsNearUnderFive(distance) == distance < 5

\* line 358
IsNear(distance) == distance < 10

\* mutant: stationary only after more than ten minutes
IsStationaryOverTenMinutes(stationary_duration) == stationary_duration > 600

\* line 361
IsStationary(stationary_duration) == stationary_duration > 300

\* mutant: the alert is sent whenever the dwell is over 30 minutes
ShouldNotifyEveryTime(data) == data.stationary_duration > 1800

\* line 366
ShouldNotify(data) == data.stationary_duration > 1800 /\ ~data.admin_notified

\* lines 324-334: there is a previous location and its fields are true
HasPrevious(data) ==
    /\ data.last_location # <<>>
    /\ Truthy(data.last_location[1].latitude)
    /\ Truthy(data.last_location[1].longitude)

\* lines 357-378: the sample is under 10 m from the previous one
Staying(data, time_diff_seconds) ==
    LET duration == data.stationary_duration + time_diff_seconds
        dwelt == [data EXCEPT !.stationary_duration = duration]
        alert == IsStationary(duration) /\ ShouldNotify(dwelt)
    IN  [data |-> [dwelt EXCEPT
                      !.movement_status = IF IsStationary(duration)
                                          THEN "stationary" ELSE @,
                      !.admin_notified = IF alert THEN TRUE ELSE @],
         location_type |-> IF IsStationary(duration) THEN "stationary"
                           ELSE "intermediate",
         speed |-> <<>>,
         alert |-> alert]

\* lines 380-392: the sample is 10 m or more from the previous one
Moving(data, distance, time_diff_seconds) ==
    LET speed == Speed(distance, time_diff_seconds)
    IN  [data |-> [data EXCEPT !.movement_status = "moving",
                               !.stationary_duration = 0,
                               !.admin_notified = FALSE,
                               !.speed = speed],
         location_type |-> "moving",
         speed |-> <<speed>>,
         alert |-> FALSE]

\* lines 321-392: the locals and the chat_data entry after the comparison
\* with the previous location
Classified(data, lat, lon, current_time) ==
    IF HasPrevious(data)
    THEN LET prev_loc == data.last_location[1]
             distance == haversine(prev_loc.latitude, prev_loc.longitude, lat, lon)
             time_diff_seconds == current_time - prev_loc.timestamp
             branch == IF IsNear(distance) THEN Staying(data, time_diff_seconds)
                       ELSE Moving(data, distance, time_diff_seconds)
         IN  [data |-> branch.data, location_type |-> branch.location_type,
              speed |-> branch.speed, alert |-> branch.alert, compared |-> TRUE,
              distance |-> distance, time_diff_seconds |-> time_diff_seconds]
    ELSE [data |-> data, location_type |-> "intermediate", speed |-> <<>>,
          alert |-> FALSE, compared |-> FALSE, distance |-> 0,
          time_diff_seconds |-> 0]

\* mutant: the handler keeps one state for every user
StoreChatDataShared(all, user_id, data) == [u \in Users |-> data]

\* context.chat_data[user_id][...] = ...: the writes of the handler go to
\* the entry of user_id
StoreChatData(all, user_id, data) == [all EXCEPT ![user_id] = data]

\* lines 395-401
LastLocation(data, lat, lon, current_time) ==
    [latitude |-> lat, longitude |-> lon, timestamp |-> current_time,
     movement_status |-> data.movement_status, speed |-> data.speed]

NothingHandled ==
    [user |-> 0, latitude |-> 0, longitude |-> 0, location_type |-> "none",
     speed |-> <<>>, alert |-> FALSE, compared |-> FALSE, distance |-> 0,
     time_diff_seconds |-> 0, stored_type |-> "none"]

MaxRuns == 3

\* the runs of handle_location
Invocations == 1 .. MaxRuns

\* a run that has not started
NoRun == [stage |-> "waiting", lat |-> 0, current_time |-> 0, last_location |-> <<>>]

BotIdle ==
    /\ inflight = [k \in Invocations |-> NoRun]
    /\ chat_data = [u \in Users |-> NoChatData]
    /\ location_tracking = [u \in Users |-> FALSE]
    /\ location_session = [u \in Users |-> NoSession]
    /\ alerts = <<>>
    /\ handled = NothingHandled
    /\ updates = 0

\* no run of handle_timeoff_response yet
NoReply == [admin_id |-> 0, request_id |-> 0, text |-> "none"]

\* a scheduled task that has not run
NoTask == [task |-> "none", at |-> 0, ran |-> FALSE]

TaskIdle ==
    /\ date_column = FALSE
    /\ night_shifts = {}
    /\ sent = <<>>
    /\ bot_data = [u \in Users |-> 0]
    /\ task_run = NoTask
    /\ task_runs = 0
    /\ timeoff_requests = <<>>
    /\ timeoff_reply = NoReply
    /\ timeoff_responses = 0

----------------------------------------------------------------------------
(* create_direct_map *)

Init ==
    /\ valid_locations \in
          {rows \in SeqsUpTo(LocationRows, MaxLocations) : OrderedByTimestamp(rows)}
    /\ status_history \in
          {rows \in SeqsUpTo(StatusRows, MaxStatuses) : OrderedByTimestamp(rows)}
    /\ status_events = <<>>
    /\ location_events = <<>>
    /\ all_events = <<>>
    /\ event_index = 1
    /\ path_segments = <<>>
    /\ current_segment = <<>>
    /\ current_status = UnknownStatus
    /\ markers = <<>>
    /\ polylines = <<>>
    /\ map_filename = NoFile
    /\ previous_segments = <<>>
    /\ pc = "start"
    /\ NormIdle
    /\ DbIdle
    /\ BotIdle
    /\ TaskIdle

\* mutant: without any data the function returns None and draws nothing
EmptyMapReturnsNone ==
    /\ pc = "start"
    /\ valid_locations = <<>> /\ status_history = <<>>
    /\ map_filename' = NoFile
    /\ pc' = "done"
    /\ UNCHANGED <<normVars, dbVars, botVars, taskVars, previous_segments>>
    /\ UNCHANGED <<valid_locations, status_history, status_events, location_events,
                   all_events, event_index, path_segments, current_segment,
                   current_status, markers, polylines>>

\* lines 144-177: neither locations nor statuses
EmptyMap ==
    /\ pc = "start"
    /\ valid_locations = <<>> /\ status_history = <<>>
    /\ markers' = Append(markers, [kind |-> "no_data", lat |-> DefaultCenter[1],
                                   lon |-> DefaultCenter[2]])
    /\ map_filename' = MapFile
    /\ pc' = "done"
    /\ UNCHANGED <<normVars, dbVars, botVars, taskVars, previous_segments>>
    /\ UNCHANGED <<valid_locations, status_history, status_events, location_events,
                   all_events, event_index, path_segments, current_segment,
                   current_status, polylines>>

\* mutant: the statuses-only branch does not return and the statuses go
\* through the segmentation loop
StatusOnlyMapFallsThrough ==
    /\ pc = "start"
    /\ valid_locations = <<>> /\ status_history # <<>>
    /\ markers' = Append(markers, [kind |-> "status_info", lat |-> DefaultCenter[1],
                                   lon |-> DefaultCenter[2],
                                   statuses |-> [i \in 1 .. Len(status_history) |->
                                                    status_history[i].status]])
    /\ status_events' = StatusEvents(status_history)
    /\ all_events' = MergedEvents(StatusEvents(status_history), <<>>)
    /\ pc' = "loop"
    /\ UNCHANGED <<normVars, dbVars, botVars, taskVars, previous_segments>>
    /\ UNCHANGED <<valid_locations, status_history, location_events, event_index,
                   path_segments, current_segment, current_status, polylines,
                   map_filename>>

\* lines 179-226: statuses without locations
StatusOnlyMap ==
    /\ pc = "start"
    /\ valid_locations = <<>> /\ status_history # <<>>
    /\ markers' = Append(markers, [kind |-> "status_info", lat |-> DefaultCenter[1],
                                   lon |-> DefaultCenter[2],
                                   statuses |-> [i \in 1 .. Len(status_history) |->
                                                    status_history[i].status]])
    /\ map_filename' = MapFile
    /\ pc' = "done"
    /\ UNCHANGED <<normVars, dbVars, botVars, taskVars, previous_segments>>
    /\ UNCHANGED <<valid_locations, status_history, status_events, location_events,
                   all_events, event_index, path_segments, current_segment,
                   current_status, polylines>>

\* lines 228-295: build and sort the timeline; the sort of line 290 may raise
MergeTimeline ==
    /\ pc = "start"
    /\ valid_locations # <<>>
    /\ LET statuses == StatusEvents(status_history)
           locations == LocationEvents(valid_locations)
           merged == MergedEvents(statuses, locations)
       IN  /\ status_events' = statuses
           /\ location_events' = locations
           /\ valid_locations' = ListSort(valid_locations,
                                    [i \in 1 .. Len(valid_locations) |->
                                        valid_locations[i].timestamp.ord])
           /\ IF SortRaises(SortKeys(merged))
              THEN /\ all_events' = merged
                   /\ pc' = "raised"
              ELSE /\ all_events' = SortedEvents(merged)
                   /\ pc' = "loop"
    /\ UNCHANGED map_filename
    /\ UNCHANGED <<normVars, dbVars, botVars, taskVars, previous_segments>>
    /\ UNCHANGED <<status_history, event_index, path_segments, current_segment,
                   current_status, markers, polylines>>

\* mutant: the status branch forgets to start a new segment
StatusEventKeepsSegment ==
    /\ pc = "loop"
    /\ event_index <= Len(all_events)
    /\ all_events[event_index].kind = "status"
    /\ LET event == all_events[event_index]
       IN  /\ path_segments' = CloseSegment(path_segments, current_segment)
           /\ current_segment' = current_segment
           /\ current_status' = event.status
           /\ markers' = IF location_events # <<>>
                         THEN Append(markers, StatusChangeMarker(location_events,
                                                  event.time_key, event.status))
                         ELSE markers
    /\ event_index' = event_index + 1
    /\ UNCHANGED map_filename
    /\ UNCHANGED <<normVars, dbVars, botVars, taskVars, previous_segments>>
    /\ UNCHANGED <<valid_locations, status_history, status_events, location_events,
                   all_events, polylines, pc>>

\* lines 299-336
StatusEvent ==
    /\ pc = "loop"
    /\ event_index <= Len(all_events)
    /\ all_events[event_index].kind = "status"
    /\ LET event == all_events[event_index]
       IN  /\ path_segments' = CloseSegment(path_segments, current_segment)
           /\ current_segment' = <<>>
           /\ current_status' = event.status
           /\ markers' = IF location_events # <<>>
                         THEN Append(markers, StatusChangeMarker(location_events,
                                                  event.time_key, event.status))
                         ELSE markers
    /\ event_index' = event_index + 1
    /\ UNCHANGED map_filename
    /\ UNCHANGED <<normVars, dbVars, botVars, taskVars, previous_segments>>
    /\ UNCHANGED <<valid_locations, status_history, status_events, location_events,
                   all_events, polylines, pc>>

\* mutant: a point of type start also closes the segment before it
LocationEventOpensSegment ==
    /\ pc = "loop"
    /\ event_index <= Len(all_events)
    /\ all_events[event_index].kind = "location"
    /\ LET event == all_events[event_index]
           opens == event.loc_type = "start"
       IN  /\ path_segments' = IF opens THEN CloseSegment(path_segments, current_segment)
                               ELSE path_segments
           /\ current_segment' = Append(IF opens THEN <<>> ELSE current_segment,
                                        <<event.lat, event.lon>>)
           /\ markers' = Append(markers, LocationMarker(event, current_status))
    /\ event_index' = event_index + 1
    /\ UNCHANGED map_filename
    /\ UNCHANGED <<normVars, dbVars, botVars, taskVars, previous_segments>>
    /\ UNCHANGED <<valid_locations, status_history, status_events, location_events,
                   all_events, current_status, polylines, pc>>

\* lines 338-401
LocationEvent ==
    /\ pc = "loop"
    /\ event_index <= Len(all_events)
    /\ all_events[event_index].kind = "location"
    /\ LET event == all_events[event_index]
       IN  /\ current_segment' = Append(current_segment, <<event.lat, event.lon>>)
           /\ markers' = Append(markers, LocationMarker(event, current_status))
    /\ event_index' = event_index + 1
    /\ UNCHANGED map_filename
    /\ UNCHANGED <<normVars, dbVars, botVars, taskVars, previous_segments>>
    /\ UNCHANGED <<valid_locations, status_history, status_events, location_events,
                   all_events, path_segments, current_status, polylines, pc>>

\* mutant: the last segment is appended even when it has no point
FlushSegmentAlways ==
    /\ pc = "loop"
    /\ event_index > Len(all_events)
    /\ path_segments' = Append(path_segments, current_segment)
    /\ pc' = "render"
    /\ UNCHANGED map_filename
    /\ UNCHANGED <<normVars, dbVars, botVars, taskVars, previous_segments>>
    /\ UNCHANGED <<valid_locations, status_history, status_events, location_events,
                   all_events, event_index, current_segment, current_status,
                   markers, polylines>>

\* lines 403-405
FlushSegment ==
    /\ pc = "loop"
    /\ event_index > Len(all_events)
    /\ path_segments' = CloseSegment(path_segments, current_segment)
    /\ pc' = "render"
    /\ UNCHANGED map_filename
    /\ UNCHANGED <<normVars, dbVars, botVars, taskVars, previous_segments>>
    /\ UNCHANGED <<valid_locations, status_history, status_events, location_events,
                   all_events, event_index, current_segment, current_status,
                   markers, polylines>>

\* lines 407-477
RenderSegments ==
    /\ pc = "render"
    /\ markers' = markers \o RenderedMarkers(1, path_segments, location_events,
                                             current_status)
    /\ polylines' = RenderedLines(1, path_segments, current_status)
    /\ pc' = "route"
    /\ UNCHANGED map_filename
    /\ UNCHANGED <<normVars, dbVars, botVars, taskVars, previous_segments>>
    /\ UNCHANGED <<valid_locations, status_history, status_events, location_events,
                   all_events, event_index, path_segments, current_segment,
                   current_status>>

\* lines 479-508
RouteMarkers ==
    /\ pc = "route"
    /\ markers' = IF location_events # <<>>
                  THEN markers \o RouteMarkerPair(location_events)
                  ELSE markers
    /\ map_filename' = MapFile
    /\ pc' = "done"
    /\ UNCHANGED <<normVars, dbVars, botVars, taskVars, previous_segments>>
    /\ UNCHANGED <<valid_locations, status_history, status_events, location_events,
                   all_events, event_index, path_segments, current_segment,
                   current_status, polylines>>

Next ==
    \/ EmptyMap
    \/ StatusOnlyMap
    \/ MergeTimeline
    \/ StatusEvent
    \/ LocationEvent
    \/ FlushSegment
    \/ RenderSegments
    \/ RouteMarkers

Spec == Init /\ [][Next]_vars

\* mutant: the second run starts with the segment the first one left
ResegmentKeepsSegment ==
    /\ pc = "done"
    /\ all_events # <<>>
    /\ previous_segments = <<>>
    /\ previous_segments' = <<path_segments>>
    /\ path_segments' = <<>>
    /\ current_segment' = current_segment
    /\ current_status' = UnknownStatus
    /\ event_index' = 1
    /\ markers' = <<>>
    /\ polylines' = <<>>
    /\ pc' = "loop"
    /\ UNCHANGED <<valid_locations, status_history, status_events, location_events,
                   all_events, map_filename>>
    /\ UNCHANGED <<normVars, dbVars, botVars, taskVars>>

\* lines 292-294 once more: the loop of lines 297-405 is run again over
\* the same, sorted, all_events, from fresh locals
Resegment ==
    /\ pc = "done"
    /\ all_events # <<>>
    /\ previous_segments = <<>>
    /\ previous_segments' = <<path_segments>>
    /\ path_segments' = <<>>
    /\ current_segment' = <<>>
    /\ current_status' = UnknownStatus
    /\ event_index' = 1
    /\ markers' = <<>>
    /\ polylines' = <<>>
    /\ pc' = "loop"
    /\ UNCHANGED <<valid_locations, status_history, status_events, location_events,
                   all_events, map_filename>>
    /\ UNCHANGED <<normVars, dbVars, botVars, taskVars>>

RerunNext ==
    \/ Next
    \/ Resegment

RerunSpec == Init /\ [][RerunNext]_vars

\* create_direct_map is not running
MapIdle ==
    /\ valid_locations = <<>>
    /\ status_history = <<>>
    /\ status_events = <<>>
    /\ location_events = <<>>
    /\ all_events = <<>>
    /\ event_index = 1
    /\ path_segments = <<>>
    /\ current_segment = <<>>
    /\ current_status = UnknownStatus
    /\ markers = <<>>
    /\ polylines = <<>>
    /\ map_filename = NoFile
    /\ previous_segments = <<>>
    /\ pc = "idle"

----------------------------------------------------------------------------
(* The filter loops on their own *)

NormInit ==
    /\ normalizer \in Normalizers
    /\ all_locations \in UNION {RawRows(k) : k \in 0 .. MaxRows}
    /\ row_index = 1
    /\ filtered = <<>>
    /\ processed_locations = <<>>
    /\ norm_pc = "loop"
    /\ MapIdle
    /\ DbIdle
    /\ BotIdle
    /\ TaskIdle

\* one iteration of the for loop: the row is appended, or logged and
\* skipped (out of range, or an exception the except clause names); any
\* other exception leaves the function
FilterRow ==
    /\ norm_pc = "loop"
    /\ row_index <= Len(all_locations)
    /\ LET outcome == RowOutcome(normalizer, all_locations[row_index])
       IN  IF outcome.error \notin Caught \cup {"none"}
           THEN /\ norm_pc' = "raised"
                /\ UNCHANGED <<row_index, filtered>>
           ELSE /\ filtered' = IF outcome.error = "none" /\ outcome.keep
                               THEN Append(filtered, outcome.row)
                               ELSE filtered
                /\ row_index' = row_index + 1
                /\ UNCHANGED norm_pc
    /\ UNCHANGED <<normalizer, all_locations, processed_locations>>
    /\ UNCHANGED <<mapVars, dbVars, botVars, taskVars>>

\* the end of the for loop
EndOfRows ==
    /\ norm_pc = "loop"
    /\ row_index > Len(all_locations)
    /\ norm_pc' = "done"
    /\ UNCHANGED <<normalizer, all_locations, row_index, filtered,
                   processed_locations>>
    /\ UNCHANGED <<mapVars, dbVars, botVars, taskVars>>

NormNext ==
    \/ FilterRow
    \/ EndOfRows

NormSpec == NormInit /\ [][NormNext]_vars

\* ---- the timestamps of create_map_for_user, utils.py 154-183 ----

MaxStamped == 3

\* 'YYYY-MM-DD HH:MM:SS.ffffff' of tick t, after the string without the
\* fraction
MicroTimestamp(t) == [fmt |-> "micro", ord |-> t]

UtilsTimestamps == Timestamps \cup {MicroTimestamp(t) : t \in Ticks}

\* lines 161-171: the datetime of the string; strptime gives a datetime
\* without time zone, datetime.now(MOSCOW_TZ) one with a time zone
ParsedTimestamp(timestamp, current_time) ==
    CASE timestamp.fmt = "iso" ->
            [type |-> "naive", parsed |-> TRUE, v |-> 2 * timestamp.ord]
      [] timestamp.fmt = "micro" ->
            [type |-> "naive", parsed |-> TRUE, v |-> 2 * timestamp.ord + 1]
      [] OTHER -> [type |-> "aware", parsed |-> FALSE, v |-> current_time]

StampedRows ==
    {[lat |-> Real(55), lon |-> Real(37), timestamp |-> ts] : ts \in UtilsTimestamps}

TimeInit ==
    /\ normalizer = "create_map_for_user"
    /\ all_locations = <<>>
    /\ filtered \in SeqsUpTo(StampedRows, MaxStamped) \ {<<>>}
    /\ row_index = 1
    /\ processed_locations = <<>>
    /\ norm_pc = "timestamps"
    /\ MapIdle
    /\ DbIdle
    /\ BotIdle
    /\ TaskIdle

\* lines 157-180: one iteration of the loop over valid_locations
ProcessTimestamp ==
    /\ norm_pc = "timestamps"
    /\ row_index <= Len(filtered)
    /\ processed_locations' =
          Append(processed_locations,
                 [filtered[row_index] EXCEPT
                     !.timestamp = ParsedTimestamp(@, now)])
    /\ row_index' = row_index + 1
    /\ UNCHANGED <<normalizer, all_locations, filtered, norm_pc>>
    /\ UNCHANGED <<mapVars, dbVars, botVars, taskVars>>

\* line 183: '<' between a datetime with and one without time zone raises
\* TypeError
SortProcessed ==
    /\ norm_pc = "timestamps"
    /\ row_index > Len(filtered)
    /\ IF \E i, j \in 1 .. Len(processed_locations) :
             processed_locations[i].timestamp.type
                # processed_locations[j].timestamp.type
       THEN /\ norm_pc' = "raised"
            /\ UNCHANGED processed_locations
       ELSE /\ norm_pc' = "sorted"
            /\ processed_locations' =
                  ListSort(processed_locations,
                           [i \in 1 .. Len(processed_locations) |->
                               processed_locations[i].timestamp.v])
    /\ UNCHANGED <<normalizer, all_locations, row_index, filtered>>
    /\ UNCHANGED <<mapVars, dbVars, botVars, taskVars>>

TimeNext ==
    \/ ProcessTimestamp
    \/ SortProcessed

TimeSpec == TimeInit /\ [][TimeNext]_vars

----------------------------------------------------------------------------
(* The storage functions under any caller *)

\* whole degrees a caller may pass
CallerCoordinates == {<<55, 37>>, <<0, 37>>, <<91, 181>>}

StoredTypes == {"start", "intermediate"}

SessionsOf(table) == {table[i].session_id : i \in 1 .. Len(table)}

DbInit ==
    /\ DbIdle
    /\ NormIdle
    /\ BotIdle
    /\ TaskIdle
    /\ MapIdle

\* database.py 157-194, called elapsed seconds after the previous call
SaveLocation ==
    /\ db_calls < MaxDbCalls
    /\ \E user_id \in Users, c \in CallerCoordinates, location_type \in StoredTypes,
          given \in {NoSession} \cup SessionsOf(location_history), elapsed \in 0 .. 1 :
          \E session_id \in SessionChoices(location_history, user_id, given,
                                            now + elapsed) :
             /\ now' = now + elapsed
             /\ location_history' = InsertRow(location_history, user_id, c[1], c[2],
                                              session_id, location_type, now')
             /\ db_call' = Call("save_location", user_id, given, c, location_type)
    /\ db_calls' = db_calls + 1
    /\ UNCHANGED <<status_table, morning_checks>>
    /\ UNCHANGED <<mapVars, normVars, botVars, taskVars>>

\* database.py 344-390
MarkSessionEnded ==
    /\ db_calls < MaxDbCalls
    /\ \E user_id \in Users, session_id \in SessionsOf(location_history),
          coordinates \in {NoCoordinates} \cup CallerCoordinates :
          /\ location_history' \in SessionEndedTables(location_history, session_id,
                                                      user_id, coordinates, now)
          /\ db_call' = Call("mark_session_ended", user_id, session_id, coordinates,
                             "end")
    /\ db_calls' = db_calls + 1
    /\ UNCHANGED <<status_table, morning_checks, now>>
    /\ UNCHANGED <<mapVars, normVars, botVars, taskVars>>

DbNext ==
    \/ SaveLocation
    \/ MarkSessionEnded

DbSpec == DbInit /\ [][DbNext]_vars

----------------------------------------------------------------------------
(* The bot receiving location updates *)

BotInit ==
    /\ BotIdle
    /\ TaskIdle
    /\ DbIdle
    /\ NormIdle
    /\ MapIdle

\* bot.py 357-436 for a sample read at current_time and compared with
\* last_location (lines 328-355); the writes are made at time t
ProcessLocation(user_id, lat, lon, current_time, last_location, t) ==
    LET known == [chat_data[user_id] EXCEPT !.exists = TRUE,
                                            !.last_location = last_location]
        result == Classified(known, lat, lon, current_time)
        start_new_session == ~location_tracking[user_id]
        location_type == IF start_new_session THEN "start"
                         ELSE result.location_type
        given == IF start_new_session THEN NoSession
                 ELSE location_session[user_id]
    IN  /\ now' = t
        /\ chat_data' = StoreChatData(chat_data, user_id,
                              [result.data EXCEPT !.last_location =
                                  <<LastLocation(result.data, lat, lon,
                                                 current_time)>>])
        /\ alerts' = IF result.alert
                     THEN Append(alerts, [kind |-> "stationary", user |-> user_id,
                                          at |-> current_time])
                     ELSE alerts
        /\ location_tracking' = [location_tracking EXCEPT ![user_id] = TRUE]
        /\ \E session_id \in SessionChoices(location_history, user_id, given, t) :
              /\ location_history' = InsertRow(location_history, user_id, lat,
                                               lon, session_id, location_type, t)
              /\ location_session' =
                    IF start_new_session
                    THEN [location_session EXCEPT ![user_id] = session_id]
                    ELSE location_session
        /\ db_call' = Call("save_location", user_id, given, <<lat, lon>>,
                           location_type)
        /\ handled' = [user |-> user_id, latitude |-> lat, longitude |-> lon,
                       location_type |-> result.location_type,
                       speed |-> result.speed, alert |-> result.alert,
                       compared |-> result.compared,
                       distance |-> result.distance,
                       time_diff_seconds |-> result.time_diff_seconds,
                       stored_type |-> location_type]
        /\ morning_checks' = update_morning_check(morning_checks, user_id,
                                                  Day(t + 3 * 3600), TRUE)
        /\ updates' = updates + 1
        /\ db_calls' = db_calls + 1
        /\ UNCHANGED status_table

\* bot.py 294-436: one location update of user_id, elapsed seconds after
\* the previous message of anyone, handled without interruption
LocationUpdate(user_id, lat, lon, elapsed) ==
    /\ ProcessLocation(user_id, lat, lon, now + elapsed,
                       chat_data[user_id].last_location, now + elapsed)
    /\ UNCHANGED inflight

\* the location updates of BotSpec
HandleLocation ==
    /\ updates < MaxUpdates
    /\ \E user_id \in Users, lat \in SampleLatitudes, elapsed \in ElapsedSeconds :
          LocationUpdate(user_id, lat, SampleLongitude, elapsed)
    /\ UNCHANGED <<mapVars, normVars, taskVars>>

BotNext == HandleLocation

BotSpec == BotInit /\ [][BotNext]_vars

\* ---- the location and status handlers over one user's day ----

MaxSessionUpdates == 3

MaxSessionStatuses == 2

\* update.effective_user.id of the messages
SessionUsers == {1}

\* metres north of the equator; 5 and 565 are 560 m apart
SessionLatitudes == {0, 5, 565}

\* seconds on the clock between two messages: the clock can stand still
\* or be set back
SessionElapsed == {0 - 300, 0, 300}

\* the status buttons pressed (config.py 47-54)
SessionStatuses == {"office", "home"}

\* bot.py 148-292: a status button of user_id, elapsed seconds after the
\* previous message
HandleStatusMessage(user_id, status_key, elapsed) ==
    LET current_time == now + elapsed
        today_date == Day(current_time + 3 * 3600)
        session_id == location_session[user_id]
        tracked == location_tracking[user_id] /\ session_id # NoSession
        stopped == IF tracked
                   THEN SessionEndedTables(location_history, session_id, user_id,
                                           NoCoordinates, current_time)
                   ELSE {location_history}
    IN  /\ now' = current_time
        /\ status_table' = InsertStatus(status_table, user_id, status_key,
                                        current_time)
        /\ morning_checks' = update_morning_check(morning_checks, user_id,
                                                  today_date, TRUE)
        /\ IF status_key = "home"
           THEN /\ \E table \in stopped :
                      LET active_sessions ==
                              get_active_location_sessions(table, user_id,
                                                           current_time)
                      IN  /\ location_history' \in
                                EndSessions(table, active_sessions, user_id,
                                            current_time)
                          /\ db_calls' = db_calls + 2 + Cardinality(active_sessions)
                                             + (IF tracked THEN 1 ELSE 0)
                /\ location_tracking' =
                      IF tracked THEN [location_tracking EXCEPT ![user_id] = FALSE]
                      ELSE location_tracking
                /\ location_session' =
                      IF tracked THEN [location_session EXCEPT ![user_id] = NoSession]
                      ELSE location_session
                /\ alerts' = Append(alerts, [kind |-> "day_ended", user |-> user_id,
                                             at |-> current_time])
                /\ db_call' = Call("get_active_location_sessions", user_id,
                                   NoSession, NoCoordinates, "none")
           ELSE /\ db_calls' = db_calls + 1
                /\ db_call' = Call("save_status", user_id, NoSession, NoCoordinates,
                                   status_key)
                /\ UNCHANGED <<location_history, location_tracking,
                               location_session, alerts>>
        /\ UNCHANGED <<chat_data, handled, updates, inflight>>

SessionInit ==
    /\ BotIdle
    /\ TaskIdle
    /\ DbIdle
    /\ NormIdle
    /\ MapIdle

SessionLocation ==
    /\ updates < MaxSessionUpdates
    /\ \E user_id \in SessionUsers, lat \in SessionLatitudes,
          elapsed \in SessionElapsed :
          /\ now + elapsed >= 0
          /\ LocationUpdate(user_id, lat, SampleLongitude, elapsed)
    /\ UNCHANGED <<mapVars, normVars, taskVars>>

SessionStatus ==
    /\ Len(status_table) < MaxSessionStatuses
    /\ \E user_id \in SessionUsers, status_key \in SessionStatuses :
          HandleStatusMessage(user_id, status_key, 300)
    /\ UNCHANGED <<mapVars, normVars, taskVars>>

SessionNext ==
    \/ SessionLocation
    \/ SessionStatus

SessionSpec == SessionInit /\ [][SessionNext]_vars

\* ---- a day of one user, from the messages to the map ----

MaxDaySamples == 10

\* metres north of the equator, within 5 m of each other
DayLatitudes == {5, 8}

\* seconds between two location updates; the first one can come in the
\* second of the status message
DayElapsed == {300}

DayFirstElapsed == {0, 300}

\* the second of the day of the status messages: 08:00 and 17:00
StatusClock == [office |-> 28800, home |-> 61200]

\* fixed_map_generator.py 109, for a latitude in metres of arc and a
\* longitude in degrees
OnGlobe(lat, lon) == Abs(lat) <= 90 * 111195 /\ Abs(lon) <= 180

\* fixed_map_generator.py 66-117: the rows of user_id of the date, ORDER BY
\* timestamp ASC, as (lat, lon, time_str, loc_type)
get_locations_from_db(table, user_id, date) ==
    LET ids == SelectSeq([i \in 1 .. Len(table) |-> i],
                         LAMBDA i : /\ table[i].user_id = user_id
                                    /\ Day(table[i].timestamp) = date
                                    /\ OnGlobe(table[i].latitude,
                                               table[i].longitude))
        rows == [k \in 1 .. Len(ids) |->
                    [lat |-> table[ids[k]].latitude, lon |-> table[ids[k]].longitude,
                     timestamp |-> IsoTimestamp(table[ids[k]].timestamp),
                     loc_type |-> table[ids[k]].location_type]]
    IN  ListSort(rows, [k \in 1 .. Len(rows) |-> rows[k].timestamp.ord])

\* fixed_map_generator.py 34-64
get_status_history_from_db(table, user_id, date) ==
    LET ids == SelectSeq([i \in 1 .. Len(table) |-> i],
                         LAMBDA i : /\ table[i].user_id = user_id
                                    /\ Day(table[i].timestamp) = date)
        rows == [k \in 1 .. Len(ids) |->
                    [status |-> table[ids[k]].status,
                     timestamp |-> IsoTimestamp(table[ids[k]].timestamp)]]
    IN  ListSort(rows, [k \in 1 .. Len(rows) |-> rows[k].timestamp.ord])

DayInit ==
    /\ BotIdle
    /\ TaskIdle
    /\ DbIdle
    /\ NormIdle
    /\ MapIdle

\* the user presses 'office' at 08:00 and 'home' at 17:00
DayStatus ==
    /\ pc = "idle"
    /\ \E user_id \in SessionUsers, status_key \in SessionStatuses :
          /\ status_key = IF status_table = <<>> THEN "office" ELSE "home"
          /\ Len(status_table) < 2
          /\ StatusClock[status_key] >= now
          /\ HandleStatusMessage(user_id, status_key, StatusClock[status_key] - now)
    /\ UNCHANGED <<mapVars, normVars, taskVars>>

\* the location updates between the two status messages
DaySample ==
    /\ pc = "idle"
    /\ Len(status_table) = 1
    /\ updates < MaxDaySamples
    /\ \E user_id \in SessionUsers, lat \in DayLatitudes,
          elapsed \in (IF updates = 0 THEN DayFirstElapsed ELSE DayElapsed) :
          LocationUpdate(user_id, lat, SampleLongitude, elapsed)
    /\ UNCHANGED <<mapVars, normVars, taskVars>>

\* fixed_map_generator.py 139-143: create_direct_map(user_id, date) reads
\* the rows of the day
LoadDay ==
    /\ pc = "idle"
    /\ \E user_id \in SessionUsers :
          /\ valid_locations' = get_locations_from_db(location_history, user_id,
                                                      Day(now))
          /\ status_history' = get_status_history_from_db(status_table, user_id,
                                                          Day(now))
    /\ pc' = "start"
    /\ UNCHANGED <<status_events, location_events, all_events, event_index,
                   path_segments, current_segment, current_status, markers,
                   polylines, map_filename>>
    /\ UNCHANGED <<normVars, dbVars, botVars, taskVars, previous_segments>>

DayNext ==
    \/ DayStatus
    \/ DaySample
    \/ LoadDay
    \/ Next

DaySpec == DayInit /\ [][DayNext]_vars

\* ---- runs of handle_location for one user that can overlap ----

RaceInit ==
    /\ BotIdle
    /\ TaskIdle
    /\ DbIdle
    /\ NormIdle
    /\ MapIdle

\* bot.py 313-355: a run creates the user's entry, reads the clock and the
\* previous location and computes distance and time difference
BeginLocation ==
    \E k \in Invocations, user_id \in SessionUsers, lat \in DayLatitudes,
       elapsed \in DayFirstElapsed :
        /\ inflight[k].stage = "waiting"
        /\ now' = now + elapsed
        /\ chat_data' = [chat_data EXCEPT ![user_id].exists = TRUE]
        /\ inflight' = [inflight EXCEPT ![k] =
                           [stage |-> "compared", lat |-> lat,
                            current_time |-> now + elapsed,
                            last_location |-> chat_data[user_id].last_location]]
        /\ UNCHANGED <<location_history, status_table, morning_checks, db_call,
                       db_calls, location_tracking, location_session, alerts,
                       handled, updates>>
        /\ UNCHANGED <<mapVars, normVars, taskVars>>

\* bot.py 357-436: the run goes on from what it has computed
FinishLocation ==
    \E k \in Invocations, user_id \in SessionUsers :
        /\ inflight[k].stage = "compared"
        /\ ProcessLocation(user_id, inflight[k].lat, SampleLongitude,
                           inflight[k].current_time, inflight[k].last_location,
                           now)
        /\ inflight' = [inflight EXCEPT ![k].stage = "done"]
        /\ UNCHANGED <<mapVars, normVars, taskVars>>

RaceNext ==
    \/ BeginLocation
    \/ FinishLocation

RaceSpec == RaceInit /\ [][RaceNext]_vars

\* ---- morning_check_task ----

MaxMorningRuns == 4

MaxCheckIns == 2

\* config.py 16
ADMIN_ID == 2

\* config.py 57-58, as seconds of the day
MORNING_CHECK_START_TIME == 8 * 3600 + 30 * 60

MORNING_CHECK_END_TIME == 10 * 3600

\* datetime.now(MOSCOW_TZ): the date and the time of day at UTC second t;
\* second 0 is the midnight (UTC) that begins a Monday
MoscowDay(t) == Day(t + 3 * 3600)

MoscowSeconds(t) == (t + 3 * 3600) % 86400

\* utils.py 52-56
is_workday(t) == MoscowDay(t) % 7 < 5

\* scheduled_tasks.py 38-144 for one row of unchecked_users: what the pass
\* of the loop does
MorningPass(row, t) ==
    LET today_date == MoscowDay(t)
        today_statuses == get_user_status_history(status_table, row.user_id,
                                                  today_date)
        yesterday_statuses == get_user_status_history(status_table, row.user_id,
                                                      today_date - 1)
        has_skip_status ==
            \E i \in 1 .. Len(today_statuses) :
                today_statuses[i].status \in {"from_night", "vacation", "sick"}
    IN  IF row.notified /\ row.admin_notified THEN "continue"
        ELSE IF is_user_in_night_shift(row.user_id, today_date) THEN "skip"
        ELSE IF has_skip_status THEN "skip"
        ELSE IF /\ yesterday_statuses # <<>>
                /\ yesterday_statuses[Len(yesterday_statuses)].status
                       \in {"vacation", "sick"}
             THEN "skip"
        ELSE "notify"

\* scheduled_tasks.py 105-141: the messages of one pass
MorningMessages(row, t) ==
    (IF row.notified THEN <<>>
     ELSE <<[chat_id |-> row.user_id, kind |-> "morning_reminder",
             user_id |-> row.user_id, at |-> t]>>)
    \o (IF row.admin_notified THEN <<>>
        ELSE <<[chat_id |-> ADMIN_ID, kind |-> "morning_notice",
                user_id |-> row.user_id, at |-> t]>>)

\* scheduled_tasks.py 38-144: the loop over unchecked_users, which are
\* ordered by name (here: by user_id); the table and the messages after it
RECURSIVE MorningLoop(_, _, _, _)
MorningLoop(unchecked_users, table, messages, t) ==
    IF unchecked_users = {} THEN [table |-> table, messages |-> messages]
    ELSE LET row == CHOOSE r \in unchecked_users :
                        \A q \in unchecked_users : r.user_id <= q.user_id
             pass == MorningPass(row, t)
             marked == update_morning_check_notification(table, row.user_id,
                                                         MoscowDay(t), TRUE, TRUE)
         IN  MorningLoop(unchecked_users \ {row},
                         IF pass = "continue" THEN table ELSE marked,
                         IF pass = "notify"
                         THEN messages \o MorningMessages(row, t) ELSE messages,
                         t)

\* scheduled_tasks.py 16-144: a run of the job, elapsed seconds after the
\* previous event
morning_check_task(elapsed) ==
    LET t == now + elapsed
        in_window == /\ is_workday(t)
                     /\ MORNING_CHECK_START_TIME <= MoscowSeconds(t)
                     /\ MoscowSeconds(t) < MORNING_CHECK_END_TIME
        fetched == get_unchecked_users_for_morning(morning_checks, MoscowDay(t))
        result == MorningLoop(fetched.rows, fetched.table, sent, t)
    IN  /\ now' = t
        /\ task_run' = [task |-> "morning_check_task", at |-> t, ran |-> in_window]
        /\ task_runs' = task_runs + 1
        /\ morning_checks' = IF in_window THEN result.table ELSE morning_checks
        /\ sent' = IF in_window THEN result.messages ELSE sent
        /\ UNCHANGED <<location_history, status_table, db_call, db_calls>>
        /\ UNCHANGED <<date_column, night_shifts, bot_data, timeoff_requests,
                       timeoff_reply, timeoff_responses>>
        /\ UNCHANGED <<mapVars, normVars, botVars>>

\* 08:20 on the Monday and 09:45 on the Friday, Moscow time
MorningStarts == {5 * 3600 + 20 * 60, 4 * 86400 + 6 * 3600 + 45 * 60}

\* bot.py 1396: the job runs every 600 seconds; a day later
MorningElapsed == {600, 86400}

MorningStatuses == {"office", "vacation"}

\* models.py 345-362: no shift, or a shift of user 2 from the Monday to the
\* Tuesday
MorningShifts == {{}, {[user_id |-> 2, start_time |-> 0, end_time |-> 1]}}

MorningInit ==
    /\ BotIdle
    /\ NormIdle
    /\ MapIdle
    /\ location_history = <<>>
    /\ status_table = <<>>
    /\ morning_checks = {}
    /\ now \in MorningStarts
    /\ db_call = NoCall
    /\ db_calls = 0
    /\ date_column \in BOOLEAN
    /\ night_shifts \in MorningShifts
    /\ sent = <<>>
    /\ bot_data = [u \in Users |-> 0]
    /\ task_run = NoTask
    /\ task_runs = 0
    /\ timeoff_requests = <<>>
    /\ timeoff_reply = NoReply
    /\ timeoff_responses = 0

MorningRun ==
    /\ task_runs < MaxMorningRuns
    /\ \E elapsed \in MorningElapsed : morning_check_task(elapsed)

MorningStatus ==
    /\ Len(status_table) + updates < MaxCheckIns
    /\ \E user_id \in Users, status_key \in MorningStatuses :
          HandleStatusMessage(user_id, status_key, 60)
    /\ UNCHANGED <<mapVars, normVars, taskVars>>

MorningLocation ==
    /\ Len(status_table) + updates < MaxCheckIns
    /\ \E user_id \in Users : LocationUpdate(user_id, 5, SampleLongitude, 60)
    /\ UNCHANGED <<mapVars, normVars, taskVars>>

MorningNext ==
    \/ MorningRun
    \/ MorningStatus
    \/ MorningLocation

MorningSpec == MorningInit /\ [][MorningNext]_vars

\* ---- check_user_activity ----

MaxActivityRuns == 3

MaxActivityEvents == 3

\* the Python values of a row that get_user_locations returns
AsNumber(v) == [type |-> "number", v |-> v]

AsDatetime(v) == [type |-> "datetime", v |-> v]

AsText(v) == [type |-> "str", v |-> v]

\* database.py 125-155 without session_id and date: the rows of user_id
\* whose timestamp, a UTC time, is later than the Moscow wall clock less
\* hours_limit hours; each row as the tuple (id, latitude, longitude,
\* timestamp, location_type) with the timestamp parsed
get_user_locations(table, user_id, hours_limit, t) ==
    LET time_limit == t + 3 * 3600 - hours_limit * 3600
        rows == SelectSeq(table, LAMBDA row : /\ row.user_id = user_id
                                              /\ row.timestamp > time_limit)
    IN  [k \in 1 .. Len(rows) |->
            <<AsNumber(rows[k].id), AsNumber(rows[k].latitude),
              AsNumber(rows[k].longitude), AsDatetime(rows[k].timestamp),
              AsText(rows[k].location_type)>>]

\* database.py 236-250 with days: the rows later than the Moscow wall clock
\* less days days, oldest first
get_recent_status_history(table, user_id, days, t) ==
    SelectSeq(table, LAMBDA row : /\ row.user_id = user_id
                                  /\ row.timestamp > t + 3 * 3600 - days * 86400)

\* models.py 101-113: the column is_admin of user_mapping
is_admin == [u \in Users |-> u = ADMIN_ID]

\* scheduled_tasks.py 442-553 for one user at current_time: "continue" when
\* the pass ends without a message, "raises" when it ends in the handler of
\* line 552, "notify" when the message of lines 537-546 is sent
ActivityPass(user_id, current_time) ==
    LET statuses == get_recent_status_history(status_table, user_id, 1,
                                                    current_time)
        last == statuses[Len(statuses)]
        last_locations == get_user_locations(location_history, user_id, 1,
                                             current_time)
        \* last_locations[-1][2]
        last_timestamp == last_locations[Len(last_locations)][3]
    IN  IF is_admin[user_id] THEN "continue"
        ELSE IF statuses = <<>> THEN "continue"
        ELSE IF last.status \in {"vacation", "sick", "to_night", "from_night"}
             THEN "continue"
        ELSE IF current_time - last.timestamp < 30 * 60 THEN "continue"
        ELSE IF last_locations = <<>> THEN "continue"
        \* current_time - last_timestamp_dt, where a value that is no string
        \* is taken as it is: a datetime less a number raises TypeError
        ELSE IF last_timestamp.type = "number" THEN "raises"
        ELSE IF current_time - last_timestamp.v > 30 * 60
             THEN IF current_time - bot_data[user_id] > 3600
                  THEN "notify" ELSE "continue"
        ELSE "continue"

\* models.py 107: the users in the order of the query
UserList == <<1, 2>>

\* scheduled_tasks.py 426-555: a run of the job, elapsed seconds after the
\* previous event
check_user_activity(elapsed) ==
    LET current_time == now + elapsed
        notified == SelectSeq(UserList,
                              LAMBDA u : ActivityPass(u, current_time) = "notify")
    IN  /\ now' = current_time
        /\ sent' = sent \o [k \in 1 .. Len(notified) |->
                               [chat_id |-> ADMIN_ID, kind |-> "inactivity_notice",
                                user_id |-> notified[k], at |-> current_time]]
        /\ bot_data' = [u \in Users |->
                           IF ActivityPass(u, current_time) = "notify"
                           THEN current_time ELSE bot_data[u]]
        /\ task_run' = [task |-> "check_user_activity", at |-> current_time,
                        ran |-> TRUE]
        /\ task_runs' = task_runs + 1
        /\ UNCHANGED <<location_history, status_table, morning_checks, db_call,
                       db_calls>>
        /\ UNCHANGED <<date_column, night_shifts, timeoff_requests,
                       timeoff_reply, timeoff_responses>>
        /\ UNCHANGED <<mapVars, normVars, botVars>>

\* bot.py 1411: the job runs every 300 seconds; half an hour later
ActivityElapsed == {300, 1800}

ActivityStatuses == {"office", "vacation"}

\* 07:00 on the Monday, Moscow time
ActivityInit ==
    /\ BotIdle
    /\ TaskIdle
    /\ NormIdle
    /\ MapIdle
    /\ location_history = <<>>
    /\ status_table = <<>>
    /\ morning_checks = {}
    /\ now = 4 * 3600
    /\ db_call = NoCall
    /\ db_calls = 0

ActivityRun ==
    /\ task_runs < MaxActivityRuns
    /\ \E elapsed \in ActivityElapsed : check_user_activity(elapsed)

ActivityStatus ==
    /\ Len(status_table) + updates < MaxActivityEvents
    /\ \E user_id \in Users, status_key \in ActivityStatuses :
          HandleStatusMessage(user_id, status_key, 300)
    /\ UNCHANGED <<mapVars, normVars, taskVars>>

ActivityLocation ==
    /\ Len(status_table) + updates < MaxActivityEvents
    /\ \E user_id \in Users : LocationUpdate(user_id, 5, SampleLongitude, 300)
    /\ UNCHANGED <<mapVars, normVars, taskVars>>

ActivityNext ==
    \/ ActivityRun
    \/ ActivityStatus
    \/ ActivityLocation

ActivitySpec == ActivityInit /\ [][ActivityNext]_vars

\* ---- time-off requests ----

MaxRequests == 2

MaxResponses == 3

\* a column that is NULL
SqlNull == 0 - 1

\* models.py 364-394: INSERT with the defaults of database.py 75-85
create_timeoff_request(table, user_id) ==
    Append(table, [id |-> Len(table) + 1, user_id |-> user_id,
                   status |-> "pending", admin_id |-> SqlNull,
                   response_time |-> SqlNull])

\* models.py 529-570: the table after the call and the user_id returned,
\* SqlNull for None
update_timeoff_request(table, request_id, status, admin_id, t) ==
    IF request_id \notin 1 .. Len(table)
    THEN [table |-> table, user_id |-> SqlNull]
    ELSE [table |-> [table EXCEPT ![request_id].status = status,
                                  ![request_id].admin_id = admin_id,
                                  ![request_id].response_time = t],
          user_id |-> table[request_id].user_id]

\* a caller to whom everything is allowed
AnybodyMayRespond(admin_id) == TRUE

\* timeoff_requests.py 127-134: the callback comes from ADMIN_ID
MayRespond(admin_id) == admin_id = ADMIN_ID

\* timeoff_requests.py 42-84: a user files a request
process_timeoff_reason ==
    /\ Len(timeoff_requests) < MaxRequests
    /\ \E user_id \in Users :
          timeoff_requests' = create_timeoff_request(timeoff_requests, user_id)
    /\ now' = now + 60
    /\ UNCHANGED <<date_column, night_shifts, sent, bot_data, task_run, task_runs,
                   timeoff_reply, timeoff_responses>>
    /\ UNCHANGED <<location_history, status_table, morning_checks, db_call,
                   db_calls>>
    /\ UNCHANGED <<mapVars, normVars, botVars>>

\* timeoff_requests.py 113-189: the button "<action>_timeoff_<request_id>"
\* pressed by admin_id
handle_timeoff_response ==
    /\ timeoff_responses < MaxResponses
    /\ \E admin_id \in Users, action \in {"approve", "reject"},
          request_id \in 1 .. MaxRequests :
          LET status == IF action = "approve" THEN "approved" ELSE "rejected"
              updated == update_timeoff_request(timeoff_requests, request_id,
                                                status, admin_id, now + 60)
          IN  IF ~MayRespond(admin_id)
              THEN /\ timeoff_reply' = [admin_id |-> admin_id,
                                        request_id |-> request_id,
                                        text |-> "no_rights"]
                   /\ UNCHANGED <<timeoff_requests, sent>>
              ELSE IF updated.user_id = SqlNull
              THEN /\ timeoff_reply' = [admin_id |-> admin_id,
                                        request_id |-> request_id,
                                        text |-> "not_found_or_processed"]
                   /\ UNCHANGED <<timeoff_requests, sent>>
              ELSE /\ timeoff_reply' = [admin_id |-> admin_id,
                                        request_id |-> request_id,
                                        text |-> status]
                   /\ timeoff_requests' = updated.table
                   /\ sent' = Append(sent, [chat_id |-> updated.user_id,
                                            kind |-> "timeoff_" \o status,
                                            user_id |-> updated.user_id,
                                            at |-> now + 60])
    /\ now' = now + 60
    /\ timeoff_responses' = timeoff_responses + 1
    /\ UNCHANGED <<date_column, night_shifts, bot_data, task_run, task_runs>>
    /\ UNCHANGED <<location_history, status_table, morning_checks, db_call,
                   db_calls>>
    /\ UNCHANGED <<mapVars, normVars, botVars>>

TimeoffInit ==
    /\ BotIdle
    /\ TaskIdle
    /\ DbIdle
    /\ NormIdle
    /\ MapIdle

TimeoffNext ==
    \/ process_timeoff_reason
    \/ handle_timeoff_response

TimeoffSpec == TimeoffInit /\ [][TimeoffNext]_vars

----------------------------------------------------------------------------
(* Derived views used by the properties *)

\* past the merge, in the branch that has locations
Started == pc \in {"loop", "render", "route", "done"} /\ valid_locations # <<>>

Segmented == pc \in {"render", "route", "done"} /\ valid_locations # <<>>

Finished == pc = "done" /\ valid_locations # <<>>

RECURSIVE Flatten(_)
Flatten(segments) ==
    IF segments = <<>> THEN <<>> ELSE Head(segments) \o Flatten(Tail(segments))

\* the coordinates of the location rows, in time order
LocationPoints == [i \in 1 .. Len(valid_locations) |->
                      <<valid_locations[i].lat, valid_locations[i].lon>>]

IsLocation(event) == event.kind = "location"

IsStatus(event) == event.kind = "status"

\* positions in the merged timeline of its location events, in order
RECURSIVE PositionsFrom(_)
PositionsFrom(i) ==
    IF i > Len(all_events) THEN <<>>
    ELSE (IF IsLocation(all_events[i]) THEN <<i>> ELSE <<>>) \o PositionsFrom(i + 1)

LocationPositions == PositionsFrom(1)

RECURSIVE LengthUpTo(_)
LengthUpTo(s) == IF s = 0 THEN 0 ELSE Len(path_segments[s]) + LengthUpTo(s - 1)

\* the segment holding the n-th point of the concatenated segments
SegmentOf(n) ==
    CHOOSE s \in 1 .. Len(path_segments) : LengthUpTo(s - 1) < n /\ n <= LengthUpTo(s)

StatusBetween(a, b) == \E k \in a + 1 .. b - 1 : IsStatus(all_events[k])

MarkersOf(kind) == SelectSeq(markers, LAMBDA m : m.kind = kind)

----------------------------------------------------------------------------
(* C1: once the loop and the final flush are done, the path segments        *)
(* concatenated in order are exactly the location points in time order:    *)
(* none dropped, none duplicated, none reordered.                          *)
C1_SegmentsPartitionLocations ==
    Segmented => Flatten(path_segments) = LocationPoints

C1_Witness ==
    /\ pc = "done"
    /\ Len(path_segments) = 2
    /\ LocationPoints[1] # LocationPoints[2]

(* C2: with k status events in the timeline the loop and the final flush   *)
(* produce at most k + 1 segments.                                         *)
C2_AtMostKPlusOneSegments ==
    Started => Len(path_segments) <= Len(status_events) + 1

C2_Witness ==
    /\ pc = "done"
    /\ Len(status_events) = 1
    /\ Len(path_segments) = 2

(* C3: two points consecutive in the timeline share a segment exactly when *)
(* no status event lies between them; right after a status event the      *)
(* current segment is empty; after the end of the stream a non-empty       *)
(* current segment is the last closed segment; no closed segment is empty. *)
C3_BoundariesAreStatusEvents ==
    /\ Segmented =>
          /\ Len(Flatten(path_segments)) = Len(LocationPositions)
          /\ \A n \in 1 .. Len(LocationPositions) - 1 :
                (SegmentOf(n) = SegmentOf(n + 1))
                   <=> ~StatusBetween(LocationPositions[n], LocationPositions[n + 1])
          /\ current_segment # <<>> =>
                path_segments[Len(path_segments)] = current_segment
    /\ (pc = "loop" /\ event_index > 1 /\ IsStatus(all_events[event_index - 1]))
          => current_segment = <<>>
    /\ Started => \A s \in 1 .. Len(path_segments) : path_segments[s] # <<>>

C3_Witness ==
    /\ pc = "done"
    /\ Len(LocationPositions) = 2
    /\ StatusBetween(LocationPositions[1], LocationPositions[2])
    /\ SegmentOf(1) # SegmentOf(2)

\* lexicographic rank of a timestamp string; for two strings the sort of line
\* 290 accepted together it is also their order in time
Instant(ts) == ts.ord

\* step function of the status events: the last one not later than ts
StatusAt(ts) ==
    LET earlier == {i \in 1 .. Len(status_events) :
                       Instant(status_events[i].time_key) <= Instant(ts)}
    IN  IF earlier = {} THEN UnknownStatus
        ELSE status_events[CHOOSE i \in earlier : \A j \in earlier : j <= i].status

\* the n-th location event of the merged timeline
NthLocation(n) == all_events[LocationPositions[n]]

(* C4: every location point has a marker, and the marker carries the status *)
(* of the latest status event whose timestamp is not later than the        *)
(* point's, or the default unknown status when there is none.              *)
C4_StepFunctionAnnotation ==
    Started =>
        LET shown == MarkersOf("location")
        IN  /\ Segmented => Len(shown) = Len(LocationPositions)
            /\ \A k \in 1 .. Len(shown) :
                  /\ <<shown[k].lat, shown[k].lon>> = <<NthLocation(k).lat, NthLocation(k).lon>>
                  /\ shown[k].status = StatusAt(NthLocation(k).time_key)

C4_Witness ==
    /\ pc = "done"
    /\ Len(MarkersOf("location")) = 2
    /\ MarkersOf("location")[1].status = UnknownStatus
    /\ MarkersOf("location")[2].status # UnknownStatus
    /\ \E i \in 1 .. Len(status_events) :
          status_events[i].time_key = MarkersOf("location")[2].time

\* the first location event of segment s
FirstOfSegment(s) == NthLocation(LengthUpTo(s - 1) + 1)

(* C5: the label of a rendered segment (its start and end markers and its  *)
(* polyline) is the status that was active while its points were           *)
(* accumulated.                                                            *)
C5_SegmentLabelIsOwnStatus ==
    Finished =>
        /\ \A i \in 1 .. Len(polylines) :
              polylines[i].status = StatusAt(FirstOfSegment(polylines[i].segment).time_key)
        /\ \A i \in 1 .. Len(markers) :
              markers[i].kind \in {"segment_start", "segment_end"} =>
                 markers[i].status = StatusAt(FirstOfSegment(markers[i].segment).time_key)

(* C6: the merged timeline holds every status and location event and is    *)
(* non-decreasing in timestamp.                                            *)
C6_TimelineNonDecreasing ==
    Started =>
        /\ Len(all_events) = Len(status_history) + Len(valid_locations)
        /\ \A i, j \in 1 .. Len(all_events) :
              i < j => Instant(all_events[i].time_key) <= Instant(all_events[j].time_key)

C6_Witness ==
    /\ pc = "loop"
    /\ \E i, j \in 1 .. Len(all_events) :
          /\ i < j
          /\ IsLocation(all_events[i]) /\ IsStatus(all_events[j])
          /\ Instant(all_events[i].time_key) < Instant(all_events[j].time_key)

(* C7: sorting the merged timeline never raises, whatever mix of parsable  *)
(* and unparsable timestamp strings the events carry.                      *)
C7_SortNeverRaises == pc # "raised"

Distance(a, b) == Abs(Instant(a) - Instant(b))

\* the location event closest in time to ts, the earlier one on a tie
NearestLocation(ts) ==
    location_events[
        CHOOSE n \in 1 .. Len(location_events) :
            \A k \in 1 .. Len(location_events) :
                \/ Distance(location_events[n].time_key, ts)
                      < Distance(location_events[k].time_key, ts)
                \/ /\ Distance(location_events[n].time_key, ts)
                         = Distance(location_events[k].time_key, ts)
                   /\ n <= k]

(* C8: the marker of a status change stands on the location sample whose   *)
(* timestamp is closest to the status timestamp, the earlier sample on a   *)
(* tie.                                                                    *)
C8_StatusMarkerAtNearestLocation ==
    Started =>
        \A i \in 1 .. Len(markers) :
            markers[i].kind = "status_change" =>
               <<markers[i].lat, markers[i].lon>>
                  = <<NearestLocation(markers[i].time).lat,
                      NearestLocation(markers[i].time).lon>>

LinesOf(s) == {i \in 1 .. Len(polylines) : polylines[i].segment = s}

(* C9: a segment gets a polyline exactly when it holds at least 2 points,  *)
(* and every location point, also the only point of a segment, has its own *)
(* marker.                                                                 *)
C9_LineIffTwoPoints ==
    (pc \in {"route", "done"} /\ valid_locations # <<>>) =>
        /\ \A s \in 1 .. Len(path_segments) :
              Cardinality(LinesOf(s)) = IF Len(path_segments[s]) >= 2 THEN 1 ELSE 0
        /\ \A i \in 1 .. Len(polylines) :
              /\ polylines[i].segment \in 1 .. Len(path_segments)
              /\ polylines[i].points = path_segments[polylines[i].segment]
        /\ [k \in 1 .. Len(MarkersOf("location")) |->
               <<MarkersOf("location")[k].lat, MarkersOf("location")[k].lon>>]
              = LocationPoints

C9_Witness ==
    /\ pc = "done"
    /\ \E s \in 1 .. Len(path_segments) : Len(path_segments[s]) = 1
    /\ polylines = <<>>
    /\ Len(MarkersOf("location")) = 2

EarliestRow ==
    CHOOSE i \in 1 .. Len(valid_locations) :
        \A j \in 1 .. Len(valid_locations) :
            \/ Instant(valid_locations[i].timestamp) < Instant(valid_locations[j].timestamp)
            \/ /\ Instant(valid_locations[i].timestamp) = Instant(valid_locations[j].timestamp)
               /\ i <= j

LatestRow ==
    CHOOSE i \in 1 .. Len(valid_locations) :
        \A j \in 1 .. Len(valid_locations) :
            \/ Instant(valid_locations[i].timestamp) > Instant(valid_locations[j].timestamp)
            \/ /\ Instant(valid_locations[i].timestamp) = Instant(valid_locations[j].timestamp)
               /\ i >= j

(* C10: with at least one location there is exactly one route start marker, *)
(* on the first location of the day, and exactly one route end marker, on  *)
(* the last, however the status events cut the points into segments.       *)
C10_RouteStartEndMarkers ==
    Finished =>
        /\ Len(MarkersOf("route_start")) = 1
        /\ Len(MarkersOf("route_end")) = 1
        /\ <<MarkersOf("route_start")[1].lat, MarkersOf("route_start")[1].lon>>
              = LocationPoints[EarliestRow]
        /\ <<MarkersOf("route_end")[1].lat, MarkersOf("route_end")[1].lon>>
              = LocationPoints[LatestRow]

C10_Witness ==
    /\ pc = "done"
    /\ Len(status_events) = 2
    /\ Len(path_segments) = 2
    /\ LocationPoints[EarliestRow] # LocationPoints[LatestRow]

C12_StatusOnlyGivesInfoMarker ==
    (valid_locations = <<>> /\ status_history # <<>> /\ pc # "start") =>
        /\ pc = "done"
        /\ map_filename = MapFile
        /\ Len(markers) = 1
        /\ markers[1].kind = "status_info"
        /\ <<markers[1].lat, markers[1].lon>> = DefaultCenter
        /\ markers[1].statuses =
              [i \in 1 .. Len(status_history) |-> status_history[i].status]
        /\ all_events = <<>> /\ event_index = 1
        /\ path_segments = <<>> /\ current_segment = <<>>
        /\ polylines = <<>>

C12_Witness ==
    /\ valid_locations = <<>>
    /\ Len(status_history) = 2
    /\ status_history[1].status # status_history[2].status
    /\ pc = "done"
    /\ Len(markers) = 1

(* C13: with at least one valid location and no status the call completes  *)
(* with exactly one segment holding all the points in time order, and      *)
(* every location marker carries the default unknown status.               *)
C13_NoStatusGivesOneSegment ==
    (status_history = <<>> /\ valid_locations # <<>> /\ pc # "start") =>
        /\ pc # "raised"
        /\ Segmented =>
              /\ path_segments = <<LocationPoints>>
              /\ Len(MarkersOf("location")) = Len(valid_locations)
              /\ \A k \in 1 .. Len(MarkersOf("location")) :
                    MarkersOf("location")[k].status = UnknownStatus

----------------------------------------------------------------------------
(* The claim's own reading of a row: both coordinates are numbers or texts  *)
(* of numbers, the latitude within [-90, 90], the longitude within         *)
(* [-180, 180].                                                            *)
ParsesToNumber(x) == x.kind = "real" \/ (x.kind = "text" /\ x.numeric)

WellFormedRow(row) ==
    /\ ParsesToNumber(row.lat) /\ ParsesToNumber(row.lon)
    /\ (0 - 90) <= row.lat.v /\ row.lat.v <= 90
    /\ (0 - 180) <= row.lon.v /\ row.lon.v <= 180

\* the timestamps of the rows of a list, in order
TimestampsOf(rows) == [i \in 1 .. Len(rows) |-> rows[i].timestamp]

(* C14: the filter never raises, and when its loop ends its output holds   *)
(* exactly the input rows whose latitude and longitude parse to numbers    *)
(* within [-90, 90] and [-180, 180], each once, in input order and with    *)
(* the same coordinate values; any other row is dropped and the rows       *)
(* around it are kept.                                                     *)
C14_FilterKeepsExactlyValidRows ==
    /\ norm_pc # "raised"
    /\ norm_pc = "done" =>
          /\ TimestampsOf(filtered) = TimestampsOf(SelectSeq(all_locations, WellFormedRow))
          /\ \A i \in 1 .. Len(filtered) :
                LET source == all_locations[filtered[i].timestamp]
                IN  /\ filtered[i].lat.v = source.lat.v
                    /\ filtered[i].lon.v = source.lon.v
                    /\ normalizer = "create_map_for_user" => filtered[i] = source

C14_Witness ==
    /\ norm_pc = "done"
    /\ Len(all_locations) = 2
    /\ ~WellFormedRow(all_locations[1])
    /\ all_locations[1].lon = Null
    /\ WellFormedRow(all_locations[2])
    /\ all_locations[2].lat = Real(90)
    /\ Len(filtered) = 1

----------------------------------------------------------------------------
(* C15: whatever calls were made, no row of location_history has a         *)
(* latitude outside [-90, 90] or a longitude outside [-180, 180]: a sample  *)
(* out of range is refused when it is saved.                               *)
C15_StoredSamplesInRange ==
    \A i \in 1 .. Len(location_history) :
        /\ (0 - 90) <= location_history[i].latitude
        /\ location_history[i].latitude <= 90
        /\ (0 - 180) <= location_history[i].longitude
        /\ location_history[i].longitude <= 180

----------------------------------------------------------------------------
(* The classifier seen from outside: a step that handles a sample of user  *)
(* u, the sample before it, and the distance and the time between them.    *)

Handles(u) == updates' = updates + 1 /\ handled'.user = u

HasPredecessor(u) == chat_data[u].last_location # <<>>

Predecessor(u) == chat_data[u].last_location[1]

Displacement(u) == Abs(handled'.latitude - Predecessor(u).latitude)

SinceLast(u) == now' - Predecessor(u).timestamp

AlertSent(u) ==
    /\ Len(alerts') = Len(alerts) + 1
    /\ alerts'[Len(alerts')].kind = "stationary"
    /\ alerts'[Len(alerts')].user = u

(* C16: a sample less than 10 m from the one before it adds the time since  *)
(* that one to the user's stationary accumulator, and is classified         *)
(* stationary exactly when the accumulator then exceeds 300 seconds.        *)
C16_NearSampleAccumulates ==
    [][\A u \in Users :
          (Handles(u) /\ HasPredecessor(u) /\ Displacement(u) < 10) =>
              /\ chat_data'[u].stationary_duration =
                    chat_data[u].stationary_duration + SinceLast(u)
              /\ handled'.location_type = "stationary"
                    <=> chat_data'[u].stationary_duration > 300]_vars

(* C17: a sample 10 m or more from the one before it leaves the user's     *)
(* stationary accumulator at 0 and the alert flag cleared, whatever they   *)
(* were.                                                                   *)
C17_FarSampleResets ==
    [][\A u \in Users :
          (Handles(u) /\ HasPredecessor(u) /\ Displacement(u) >= 10) =>
              /\ chat_data'[u].stationary_duration = 0
              /\ ~chat_data'[u].admin_notified]_vars

C19_NearSampleNeverMoving ==
    [][\A u \in Users :
          (Handles(u) /\ HasPredecessor(u) /\ Displacement(u) < 10) =>
              /\ handled'.location_type \notin {"moving", "fast_moving"}
              /\ handled'.stored_type \notin {"moving", "fast_moving"}
              /\ handled'.speed = <<>>
              /\ chat_data'[u].speed = chat_data[u].speed]_vars

C19_Witness ==
    /\ handled.compared
    /\ handled.distance = 5
    /\ handled.time_diff_seconds = 300
    /\ handled.location_type = "intermediate"
    /\ chat_data[handled.user].movement_status = "moving"

(* C20: a sample 10 m or more from the one before it is classified         *)
(* fast_moving when its speed, distance over time, is over 50 km/h, and    *)
(* moving otherwise.                                                       *)
C20_FastMovingOverFifty ==
    [][\A u \in Users :
          (Handles(u) /\ HasPredecessor(u) /\ Displacement(u) >= 10) =>
              handled'.location_type =
                  IF SinceLast(u) > 0 /\ 36 * Displacement(u) > 50 * 10 * SinceLast(u)
                  THEN "fast_moving" ELSE "moving"]_vars

(* C22: the first sample of a user, with no previous location in the       *)
(* classifier state, is compared with nothing: no distance and no speed    *)
(* are computed, its type is the default one, the movement status stays    *)
(* unknown, the accumulator stays 0 and no alert is sent.                  *)
C22_FirstSampleIsDefault ==
    [][\A u \in Users :
          (Handles(u) /\ ~HasPredecessor(u)) =>
              /\ ~handled'.compared
              /\ handled'.speed = <<>>
              /\ handled'.location_type = "intermediate"
              /\ chat_data'[u].movement_status = "unknown"
              /\ chat_data'[u].stationary_duration = 0
              /\ chat_data'[u].speed = chat_data[u].speed
              /\ ~chat_data'[u].admin_notified
              /\ alerts' = alerts]_vars

C22_Witness ==
    /\ updates = 2
    /\ handled.user = 2
    /\ ~handled.compared
    /\ chat_data[2].last_location # <<>>
    /\ chat_data[2].last_location[1].latitude = 5015
    /\ chat_data[2].stationary_duration = 0
    /\ chat_data[1].last_location # <<>>

(* C29: handling a sample of one user leaves the classifier state of       *)
(* every other user as it was (accumulator, last sample, alert flag,       *)
(* movement status, speed) and its tracking flag and session too, however  *)
(* the samples of the users interleave.                                    *)
C29_StatePerUser ==
    [][\A u \in Users :
          Handles(u) =>
              \A v \in Users \ {u} :
                  /\ chat_data'[v] = chat_data[v]
                  /\ location_tracking'[v] = location_tracking[v]
                  /\ location_session'[v] = location_session[v]]_vars

C29_Witness ==
    /\ updates = 3
    /\ handled.user = 1
    /\ handled.compared
    /\ chat_data[1].stationary_duration = 1800
    /\ chat_data[2].last_location # <<>>
    /\ chat_data[2].last_location[1].timestamp > 300
    /\ chat_data[2].last_location[1].timestamp < now
    /\ chat_data[2].stationary_duration = 0

\* this step is a call of mark_session_ended
Closes ==
    /\ db_calls' = db_calls + 1
    /\ db_call'.function = "mark_session_ended"

\* the rows of a session of a user
SessionRows(table, user_id, session_id) ==
    {i \in 1 .. Len(table) :
        table[i].user_id = user_id /\ table[i].session_id = session_id}

\* the rows of the table before the step are in the table after it, unchanged
KeepsStoredRows ==
    /\ Len(location_history') >= Len(location_history)
    /\ \A i \in 1 .. Len(location_history) : location_history'[i] = location_history[i]

(* C26: mark_session_ended with both coordinates given, 0.0 included,      *)
(* appends exactly one 'end' sample with those coordinates and changes no  *)
(* stored sample; with the coordinates omitted it adds no sample and       *)
(* relabels the most recent sample of the session to 'end'.                *)
C26_CloseAppendsOrRelabels ==
    [][Closes =>
          LET c == db_call'.coordinates
              rows == SessionRows(location_history, db_call'.user_id,
                                  db_call'.session_id)
          IN  IF c # NoCoordinates
              THEN /\ Len(location_history') = Len(location_history) + 1
                   /\ KeepsStoredRows
                   /\ location_history'[Len(location_history')].location_type = "end"
                   /\ location_history'[Len(location_history')].latitude = c[1]
                   /\ location_history'[Len(location_history')].longitude = c[2]
              ELSE /\ Len(location_history') = Len(location_history)
                   /\ rows # {} =>
                          \E i \in MostRecent(location_history, rows) :
                             location_history' =
                                [location_history EXCEPT ![i].location_type = "end"]]_vars

(* C27: a session is returned by get_active_location_sessions exactly      *)
(* when none of its samples is an 'end' sample, and a session that         *)
(* mark_session_ended has just closed is not returned, however many        *)
(* samples it has.                                                         *)
C27_ClosedSessionNotOpen ==
    [][/\ \A u \in Users, s \in SessionsOf(location_history') :
             SessionRows(location_history', u, s) # {} =>
                 (s \in get_active_location_sessions(location_history', u, now')
                    <=> \A i \in SessionRows(location_history', u, s) :
                           location_history'[i].location_type # "end")
       /\ (Closes /\ SessionRows(location_history, db_call'.user_id,
                                  db_call'.session_id) # {})
             => db_call'.session_id \notin
                   get_active_location_sessions(location_history', db_call'.user_id,
                                                now')]_vars

(* C21: for a sample 10 m or more from its predecessor the speed is        *)
(* distance / seconds * 3.6 when the seconds between the two are positive  *)
(* and exactly 0 when they are zero or negative, and with zero or negative *)
(* seconds the sample is still classified moving, with speed 0.            *)
C21_SpeedGuardsZeroTime ==
    [][\A u \in Users :
          (Handles(u) /\ HasPredecessor(u) /\ Displacement(u) >= 10) =>
              /\ handled'.speed # <<>>
              /\ IF SinceLast(u) > 0
                 THEN handled'.speed[1].num * 10 * SinceLast(u)
                         = 36 * Displacement(u) * handled'.speed[1].den
                 ELSE /\ handled'.speed[1].num = 0
                      /\ handled'.location_type = "moving"
                      /\ chat_data'[u].movement_status = "moving"]_vars

(* C24 as stated: a sample of a running session, 560 m and 300 s after    *)
(* its predecessor, gets a speed of 6720 km/h and is classified            *)
(* fast_moving.                                                            *)
C24_ScenarioBAsStated ==
    [][\A u \in Users :
          (Handles(u) /\ location_tracking[u] /\ HasPredecessor(u)
             /\ Predecessor(u).latitude = 5 /\ handled'.latitude = 565
             /\ SinceLast(u) = 300) =>
              /\ handled'.speed # <<>>
              /\ handled'.speed[1].num = 6720 * handled'.speed[1].den
              /\ "fast_moving" \in {handled'.location_type,
                                    movement_status(handled'.stored_type,
                                                    handled'.speed[1])}]_vars

(* C24: a sample of a running session, 560 m and 300 s after its           *)
(* predecessor, gets a speed of 6.72 km/h (560 / 300 * 3.6) and is         *)
(* classified moving by the handler, stored as moving, and shown as        *)
(* moving, not fast_moving, by the map.                                    *)
C24_ScenarioB ==
    [][\A u \in Users :
          (Handles(u) /\ location_tracking[u] /\ HasPredecessor(u)
             /\ Predecessor(u).latitude = 5 /\ handled'.latitude = 565
             /\ SinceLast(u) = 300) =>
              /\ handled'.speed # <<>>
              /\ 100 * handled'.speed[1].num = 672 * handled'.speed[1].den
              /\ chat_data'[u].speed = handled'.speed[1]
              /\ handled'.location_type = "moving"
              /\ handled'.stored_type = "moving"
              /\ movement_status(handled'.stored_type, handled'.speed[1])
                    = "moving"]_vars

C24_Witness ==
    /\ handled.compared
    /\ handled.latitude = 565
    /\ handled.distance = 560
    /\ handled.time_diff_seconds = 300
    /\ handled.speed # <<>>
    /\ handled.stored_type = "moving"
    /\ Len(location_history) = 2
    /\ location_history[1].latitude = 5

(* C28: a stored sample never changes, except that one sample of a         *)
(* session can be relabelled from its kind to 'end'; once a session has a  *)
(* relabelled sample no other sample of it is relabelled. (The handlers    *)
(* never insert an 'end' sample, so an 'end' sample is a relabelled one.)  *)
C28_OneRetagPerSession ==
    [][/\ Len(location_history') >= Len(location_history)
       /\ \A i \in 1 .. Len(location_history) :
             \/ location_history'[i] = location_history[i]
             \/ /\ location_history'[i] =
                      [location_history[i] EXCEPT !.location_type = "end"]
                /\ \A j \in 1 .. Len(location_history) :
                      (j # i /\ location_history[j].session_id
                                  = location_history[i].session_id)
                         => location_history[j].location_type # "end"]_vars

(* C30: the classifier state of a user is reset when the user's session    *)
(* is closed: the sample that starts the next session is compared with no  *)
(* predecessor and finds the accumulator at 0 and no alert flag.           *)
C30_StateResetOnClose ==
    [][\A u \in Users :
          (Handles(u) /\ ~location_tracking[u]) =>
              /\ ~handled'.compared
              /\ chat_data'[u].stationary_duration = 0
              /\ ~chat_data'[u].admin_notified]_vars

\* Scenario A: the map is drawn for a day with 'office' at 08:00:00 and
\* five points at 08:00:00, 08:05, 08:10, 08:15 and 08:20
ScenarioA ==
    /\ pc = "done"
    /\ status_history = <<[status |-> "office",
                           timestamp |-> IsoTimestamp(StatusClock.office)]>>
    /\ Len(valid_locations) = 5
    /\ \A i \in 1 .. 5 :
          valid_locations[i].timestamp
             = IsoTimestamp(StatusClock.office + 300 * (i - 1))

\* Scenario D: the map is drawn for a day with 'office' at 08:00, ten
\* points from 08:05 on and 'home' at 17:00
ScenarioD ==
    /\ pc = "done"
    /\ status_history = <<[status |-> "office",
                           timestamp |-> IsoTimestamp(StatusClock.office)],
                          [status |-> "home",
                           timestamp |-> IsoTimestamp(StatusClock.home)]>>
    /\ Len(valid_locations) = 10
    /\ valid_locations[1].timestamp = IsoTimestamp(StatusClock.office + 300)

(* C23: in Scenario A the map has one segment, holding the five points;    *)
(* the third, fourth and fifth sample are classified stationary (the       *)
(* accumulator is 600 s at the third, over 300 s), the first two are not,  *)
(* and no sample is classified moving.                                     *)
C23_ScenarioA ==
    ScenarioA =>
        /\ Len(path_segments) = 1
        /\ Len(path_segments[1]) = 5
        /\ \A i \in 3 .. 5 : valid_locations[i].loc_type = "stationary"
        /\ valid_locations[1].loc_type = "start"
        /\ valid_locations[2].loc_type = "intermediate"
        /\ \A i \in 1 .. 5 :
              valid_locations[i].loc_type \notin {"moving", "fast_moving"}
        /\ \A u \in SessionUsers :
              /\ chat_data[u].stationary_duration = 1200
              /\ chat_data[u].movement_status = "stationary"

C23_Witness ==
    /\ ScenarioA
    /\ valid_locations[1].lat = 5
    /\ valid_locations[2].lat = 8
    /\ valid_locations[3].lat = 5
    /\ all_events[1].kind = "status"
    /\ Len(all_events) = 6
    /\ Len(polylines) = 1

(* C25 as stated: in Scenario D the segmentation gives two segments, the   *)
(* first with the ten points and the second with none, and one line is     *)
(* drawn.                                                                  *)
C25_ScenarioDAsStated ==
    ScenarioD =>
        /\ Len(path_segments) = 2
        /\ Len(path_segments[1]) = 10
        /\ path_segments[2] = <<>>
        /\ Len(polylines) = 1

(* C25: in Scenario D the segmentation gives exactly one segment, holding  *)
(* the ten points: the segment that is empty after the 'home' event is     *)
(* never added to the list.  One line is drawn, through the ten points,    *)
(* and the 'home' event has its status-change marker.                      *)
C25_ScenarioD ==
    ScenarioD =>
        /\ Len(path_segments) = 1
        /\ Len(path_segments[1]) = 10
        /\ current_segment = <<>>
        /\ Len(polylines) = 1
        /\ polylines[1].points = path_segments[1]
        /\ \E i \in 1 .. Len(markers) :
              markers[i].kind = "status_change" /\ markers[i].status = "home"

C25_Witness ==
    /\ ScenarioD
    /\ Len(all_events) = 12
    /\ all_events[12].kind = "status"
    /\ all_events[12].status = "home"
    /\ Len(path_segments) = 1
    /\ valid_locations[10].loc_type = "end"

----------------------------------------------------------------------------
(* C31: a row whose timestamp parses with neither format is kept with the  *)
(* current time as its timestamp; the batch does not fail, every row is    *)
(* processed and the rows end up sorted by time.                           *)
C31_UnparseableFallsBackToNow ==
    /\ norm_pc # "raised"
    /\ norm_pc = "sorted" =>
          /\ Len(processed_locations) = Len(filtered)
          /\ \A i \in 1 .. Len(processed_locations) - 1 :
                processed_locations[i].timestamp.v
                   <= processed_locations[i + 1].timestamp.v
          /\ \A i \in 1 .. Len(filtered) :
                filtered[i].timestamp.fmt = "short" =>
                    \E j \in 1 .. Len(processed_locations) :
                       /\ ~processed_locations[j].timestamp.parsed
                       /\ processed_locations[j].timestamp.v = now

----------------------------------------------------------------------------
----------------------------------------------------------------------------
\* the status events of the timeline with the timestamp of the event at p
TiedStatuses(p) ==
    {q \in 1 .. Len(all_events) :
        /\ all_events[q].kind = "status"
        /\ all_events[q].time_key = all_events[p].time_key}

(* C34: a location with the timestamp of a status event comes after that   *)
(* status event in the timeline; when the loop has handled the location,   *)
(* the current segment is the one opened by the last such status event     *)
(* (it holds the points after that event, up to this one) and the          *)
(* location's marker carries the status of that event.                     *)
C34_StatusBeforeLocationOnTie ==
    (/\ pc = "loop"
     /\ event_index > 1
     /\ all_events[event_index - 1].kind = "location"
     /\ TiedStatuses(event_index - 1) # {}) =>
        LET p == event_index - 1
            q == CHOOSE x \in TiedStatuses(p) : \A y \in TiedStatuses(p) : y <= x
        IN  /\ \A y \in TiedStatuses(p) : y < p
            /\ current_segment = [k \in 1 .. p - q |->
                                     <<all_events[q + k].lat, all_events[q + k].lon>>]
            /\ current_status = all_events[q].status
            /\ markers[Len(markers)].kind = "location"
            /\ markers[Len(markers)].status = all_events[q].status

C34_Witness ==
    /\ pc = "loop"
    /\ event_index = 4
    /\ all_events[1].kind = "location"
    /\ all_events[2].kind = "status"
    /\ all_events[3].kind = "location"
    /\ all_events[2].time_key = all_events[3].time_key
    /\ all_events[1].time_key # all_events[2].time_key
    /\ Len(path_segments) = 1
    /\ Len(current_segment) = 1

----------------------------------------------------------------------------
\* the sessions of u that have an 'end' sample
ClosedSessions(u) ==
    {location_history[i].session_id :
        i \in {j \in 1 .. Len(location_history) :
                  /\ location_history[j].user_id = u
                  /\ location_history[j].location_type = "end"}}

(* C33: a location of a user who is not being tracked is stored as a       *)
(* 'start' sample, under a session_id that none of the user's closed       *)
(* sessions has.                                                           *)
C33_NewSessionOnStart ==
    [][\A u \in Users :
          (Handles(u) /\ ~location_tracking[u]) =>
              LET stored == location_history'[Len(location_history')]
              IN  /\ Len(location_history') = Len(location_history) + 1
                  /\ stored.user_id = u
                  /\ stored.location_type = "start"
                  /\ location_session'[u] = stored.session_id
                  /\ stored.session_id \notin ClosedSessions(u)]_vars

----------------------------------------------------------------------------
\* the clock reading of the earliest run that has started
FirstReading ==
    LET started == {k \in Invocations : inflight[k].stage # "waiting"}
    IN  inflight[CHOOSE k \in started :
                    \A j \in started :
                        inflight[k].current_time <= inflight[j].current_time].current_time

----------------------------------------------------------------------------
\* the messages of a kind about user u sent on Moscow day d
SentOn(messages, kind, u, d) ==
    {i \in 1 .. Len(messages) : /\ messages[i].kind = kind
                                /\ messages[i].user_id = u
                                /\ MoscowDay(messages[i].at) = d}

\* u has set a status or sent a location on the Moscow day of t, or is in a
\* night shift on it, or has set from_night, vacation or sick on it
Excused(u, t) ==
    \/ \E i \in 1 .. Len(status_table) :
          /\ status_table[i].user_id = u
          /\ MoscowDay(status_table[i].timestamp) = MoscowDay(t)
    \/ \E i \in 1 .. Len(location_history) :
          /\ location_history[i].user_id = u
          /\ MoscowDay(location_history[i].timestamp) = MoscowDay(t)
    \/ is_user_in_night_shift(u, MoscowDay(t))

----------------------------------------------------------------------------
\* the positions of the rows of u with the latest timestamp
Latest(table, u) ==
    {i \in 1 .. Len(table) :
        /\ table[i].user_id = u
        /\ \A j \in 1 .. Len(table) :
              table[j].user_id = u => table[j].timestamp <= table[i].timestamp}

\* at time t user u is no admin, has a latest status that is none of the
\* four and is 30 minutes old or older, has a latest stored location older
\* than 30 minutes, and no inactivity notice about u is an hour old or less
Inactive(u, t) ==
    /\ u # ADMIN_ID
    /\ \E i \in Latest(status_table, u) :
          /\ status_table[i].status \notin {"vacation", "sick", "to_night", "from_night"}
          /\ t - status_table[i].timestamp >= 30 * 60
    /\ \E i \in Latest(location_history, u) :
          t - location_history[i].timestamp > 30 * 60
    /\ \A i \in 1 .. Len(sent) :
          (sent[i].kind = "inactivity_notice" /\ sent[i].user_id = u)
              => t - sent[i].at > 3600

(* C37: a run of check_user_activity sends the admin a notice about every  *)
(* user who is no admin, whose latest status is not vacation, sick,        *)
(* to_night or from_night and was set at least 30 minutes ago, whose most  *)
(* recent stored location is older than 30 minutes, and about whom no      *)
(* notice was sent within the last hour.                                   *)
C37_InactivityNotified ==
    [][task_runs' = task_runs + 1 =>
          \A u \in Users :
              Inactive(u, now') =>
                  \E i \in Len(sent) + 1 .. Len(sent') :
                      /\ sent'[i].kind = "inactivity_notice"
                      /\ sent'[i].user_id = u]_vars

----------------------------------------------------------------------------
\* request r is in the table and waits for an answer
Pending(r) ==
    /\ r \in 1 .. Len(timeoff_requests)
    /\ timeoff_requests[r].status = "pending"

(* C38: a request changes only from pending to approved or rejected; a run *)
(* of handle_timeoff_response for a request that does not exist or is not  *)
(* pending any more reports an error, leaves the rows as they are and      *)
(* sends the user nothing.                                                 *)
C38_OnlyPendingIsAnswered ==
    [][(timeoff_responses' = timeoff_responses + 1
            /\ ~Pending(timeoff_reply'.request_id))
          => /\ timeoff_reply'.text \in {"no_rights", "not_found_or_processed"}
             /\ timeoff_requests' = timeoff_requests
             /\ sent' = sent]_vars

(* C39: a run of handle_timeoff_response for a callback that does not come *)
(* from ADMIN_ID leaves every request as it is and sends the user          *)
(* nothing.                                                                *)
C39_OnlyAdminAnswers ==
    [][(timeoff_responses' = timeoff_responses + 1
            /\ timeoff_reply'.admin_id # ADMIN_ID)
          => /\ timeoff_requests' = timeoff_requests
             /\ sent' = sent]_vars

\* somebody else than ADMIN_ID has pressed a button of a pending request
C39_Witness ==
    /\ timeoff_reply.admin_id # ADMIN_ID
    /\ timeoff_reply.text = "no_rights"
    /\ Pending(timeoff_reply.request_id)
    /\ sent = <<>>

====
